---- MODULE Spec2Model ----
(***************************************************************************)
(* Training Recommender System (Streamlit application).                    *)
(*                                                                         *)
(* The model covers the cluster-assignment subsystem (utils.py:            *)
(* load_data, get_clustering_model, predict_cluster with the two Streamlit  *)
(* caches in front of them) and the gap-scoring / priority-ranking code of  *)
(* recommendations.py and self_assessment.py.                              *)
(*                                                                         *)
(* Conventions                                                             *)
(*  - A Python str is a sequence of one-character strings, so that         *)
(*    startswith, split('.') and sorted() are computed, not assumed.       *)
(*  - A DataFrame is [columns |-> Seq(str), rows |-> Seq(Seq(cell))], the   *)
(*    cells of a row aligned with the columns; a missing cell is NAN.       *)
(*  - A float average is an exact rational [n |-> Int, d |-> Nat]; d = 0    *)
(*    is the float NaN, and every comparison with NaN is FALSE as in        *)
(*    Python.  Binary rounding of the floats is not modelled.               *)
(***************************************************************************)
EXTENDS Integers, Sequences, FiniteSets, Bags, TLC

----------------------------------------------------------------------------
(* Program constants (config.py)                                           *)

NUM_CLUSTERS == 3
CLUSTER_RANDOM_STATE == 42
MIN_RATING == 1
MAX_RATING == 5

(* pandas' missing cell (NaN) inside a DataFrame of integer ratings *)
NAN == -1

----------------------------------------------------------------------------
(* Python str operations                                                   *)

(* ord(c) for the characters that occur in the column names of the model *)
Ord(c) ==
  CASE c = " " -> 32 [] c = "." -> 46
    [] c = "0" -> 48 [] c = "1" -> 49 [] c = "2" -> 50 [] c = "3" -> 51
    [] c = "4" -> 52 [] c = "5" -> 53 [] c = "6" -> 54 [] c = "7" -> 55
    [] c = "8" -> 56 [] c = "9" -> 57
    [] c = "C" -> 67 [] c = "N" -> 78 [] c = "T" -> 84
    [] c = "a" -> 97 [] c = "b" -> 98 [] c = "c" -> 99
    [] OTHER -> 120

(* str.startswith(p) *)
StartsWith(s, p) == Len(s) >= Len(p) /\ SubSeq(s, 1, Len(p)) = p

(* the tuple ('1.', '2.', ..., '13.') every page tests column names with *)
DOMAIN_PREFIXES ==
  { <<"1", ".">>, <<"2", ".">>, <<"3", ".">>, <<"4", ".">>, <<"5", ".">>,
    <<"6", ".">>, <<"7", ".">>, <<"8", ".">>, <<"9", ".">>,
    <<"1", "0", ".">>, <<"1", "1", ".">>, <<"1", "2", ".">>, <<"1", "3", ".">> }

(* col.startswith(('1.', ..., '13.')) *)
IsCompetencyCol(col) == \E p \in DOMAIN_PREFIXES : StartsWith(col, p)

(* col.split('.')[0] *)
RECURSIVE SplitDot0(_)
SplitDot0(s) ==
  IF s = << >> \/ Head(s) = "." THEN << >>
  ELSE <<Head(s)>> \o SplitDot0(Tail(s))

(* int(s) for a str of decimal digits *)
RECURSIVE ParseInt(_)
ParseInt(s) ==
  IF s = << >> THEN 0
  ELSE 10 * ParseInt(SubSeq(s, 1, Len(s) - 1)) + (Ord(s[Len(s)]) - 48)

(* s < t for two str, as Python compares them (code points, then length) *)
RECURSIVE StrLess(_, _)
StrLess(s, t) ==
  IF t = << >> THEN FALSE
  ELSE IF s = << >> THEN TRUE
  ELSE IF Head(s) # Head(t) THEN Ord(Head(s)) < Ord(Head(t))
  ELSE StrLess(Tail(s), Tail(t))

----------------------------------------------------------------------------
(* list helpers                                                            *)

Range(s) == { s[i] : i \in 1..Len(s) }

(* a Python list built by a comprehension: the function [i \in 1..n |-> e]
   as a tuple *)
List(s) == s \o << >>

(* sorted(s, key=...) / list.sort: x goes before y when before[<<x, y>>], a
   function on the pairs of elements of s; elements that compare equal keep
   their order, as in Python's stable sort *)
InsertSorted(x, s, before) ==
  LET k == IF \E j \in 1..Len(s) : before[<<x, s[j]>>]
           THEN CHOOSE j \in 1..Len(s) :
                  before[<<x, s[j]>>] /\ \A i \in 1..(j - 1) : ~before[<<x, s[i]>>]
           ELSE Len(s) + 1
  IN SubSeq(s, 1, k - 1) \o <<x>> \o SubSeq(s, k, Len(s))

SortedBy(s, before) ==
  LET acc[i \in 0..Len(s)] ==
        IF i = 0 THEN << >> ELSE InsertSorted(s[i], acc[i - 1], before)
  IN acc[Len(s)]

(* the elements of s without repetitions, in order of first occurrence *)
RECURSIVE Dedup(_)
Dedup(s) ==
  IF s = << >> THEN << >>
  ELSE LET r == Dedup(SubSeq(s, 1, Len(s) - 1))
       IN IF s[Len(s)] \in Range(r) THEN r ELSE Append(r, s[Len(s)])

(* the index of x in s (list.index) *)
IndexOf(s, x) == CHOOSE i \in 1..Len(s) : s[i] = x /\ \A j \in 1..(i - 1) : s[j] # x

----------------------------------------------------------------------------
(* float arithmetic as exact rationals; d = 0 is NaN                       *)

Rat(n, d) == [n |-> n, d |-> d]
FNAN == Rat(0, 0)
IsNaN(a) == a.d = 0

RatGE(a, b) == a.d > 0 /\ b.d > 0 /\ a.n * b.d >= b.n * a.d
RatGT(a, b) == a.d > 0 /\ b.d > 0 /\ a.n * b.d > b.n * a.d
RatEQ(a, b) == a.d > 0 /\ b.d > 0 /\ a.n * b.d = b.n * a.d
RatSub(a, b) == IF a.d = 0 \/ b.d = 0 THEN FNAN ELSE Rat(a.n * b.d - b.n * a.d, a.d * b.d)
RatAdd(a, b) == IF a.d = 0 \/ b.d = 0 THEN FNAN ELSE Rat(a.n * b.d + b.n * a.d, a.d * b.d)

----------------------------------------------------------------------------
(* DataFrame access                                                        *)

CLUSTER_COL == <<"C">>
TIMESTAMP_KEY == <<"T">>

Cell(d, r, col) == d.rows[r][IndexOf(d.columns, col)]

(* df[col] as a sequence over the rows *)
Column(d, col) ==
  LET i == IndexOf(d.columns, col) IN List([r \in 1..Len(d.rows) |-> d.rows[r][i]])
RowIds(d) == 1..Len(d.rows)

(* [col for col in df.columns if col.startswith((...))] *)
CompetencyCols(d) == SelectSeq(d.columns, IsCompetencyCol)

(* domain_mapping: for every col.split('.')[0] of a competency column, in
   order of first occurrence, the columns of that domain in column order *)
DomainMapping(d) ==
  LET cc == CompetencyCols(d)
      nums == Dedup(List([i \in 1..Len(cc) |-> SplitDot0(cc[i])]))
  IN List([i \in 1..Len(nums) |->
             [domain |-> nums[i],
              cols |-> SelectSeq(cc, LAMBDA c : SplitDot0(c) = nums[i])]])

(* sorted(domain_mapping.items(), key=lambda x: int(x[0])), and
   sorted(domain_mapping.keys(), key=int) with the columns kept alongside *)
DomainsByInt(dm) ==
  SortedBy(dm, [p \in Range(dm) \X Range(dm) |-> ParseInt(p[1].domain) < ParseInt(p[2].domain)])

(* sorted(df['Cluster'].unique()) as a set, and its first element *)
ClusterLabels(d) == { Cell(d, r, CLUSTER_COL) : r \in RowIds(d) }
MinLabel(d) == CHOOSE c \in ClusterLabels(d) : \A o \in ClusterLabels(d) : c <= o

(* df[df['Cluster'] == selected_cluster], as the ids of its rows *)
ClusterRows(d, c) == { r \in RowIds(d) : Cell(d, r, CLUSTER_COL) = c }

----------------------------------------------------------------------------
(* Domain aggregator: DataFrame.mean() skips missing cells, Series.mean()    *)
(* skips NaN column means                                                  *)

RECURSIVE SumSeq(_)
SumSeq(s) == IF s = << >> THEN 0 ELSE Head(s) + SumSeq(Tail(s))

(* the ids in the set rs as an increasing sequence *)
RECURSIVE SetToSeq(_)
SetToSeq(S) ==
  IF S = {} THEN << >>
  ELSE LET m == CHOOSE x \in S : \A y \in S : x <= y
       IN <<m>> \o SetToSeq(S \ {m})

(* frame[col].mean() over the rows in rs *)
ColMean(d, rs, col) ==
  LET ids == SetToSeq(rs)
      colv == Column(d, col)
      present == SelectSeq([i \in 1..Len(ids) |-> colv[ids[i]]], LAMBDA v : v # NAN)
  IN IF present = << >> THEN FNAN ELSE Rat(SumSeq(present), Len(present))

RECURSIVE RatSum(_)
RatSum(s) == IF s = << >> THEN Rat(0, 1) ELSE RatAdd(Head(s), RatSum(Tail(s)))

(* Series.mean() of a sequence of floats: NaN entries are skipped *)
SeriesMean(s) ==
  LET valid == SelectSeq(s, LAMBDA a : ~IsNaN(a))
      t == RatSum(valid)
  IN IF valid = << >> THEN FNAN ELSE Rat(t.n, t.d * Len(valid))

(* frame[cols].mean().mean() over the rows in rs *)
MeanOfColMeans(d, rs, cols) ==
  SeriesMean(List([i \in 1..Len(cols) |-> ColMean(d, rs, cols[i])]))

(* np.mean(list of numbers) *)
NpMean(s) ==
  IF s = << >> THEN FNAN
  ELSE Rat(SumSeq(s), Len(s))

----------------------------------------------------------------------------
(* Priority classifier, as written in both pages                            *)

(* a classifier that compares the wrong way at the thresholds *)
Included_strict(avg, gap) == RatGE(gap, Rat(3, 10)) \/ RatGT(avg, Rat(35, 10))

(* a classifier whose two upper levels are exchanged *)
Priority_swapped(avg, gap) ==
  IF RatGE(avg, Rat(45, 10)) THEN "HIGH"
  ELSE IF RatGE(avg, Rat(40, 10)) THEN "URGENT"
  ELSE IF RatGE(avg, Rat(35, 10)) \/ RatGT(gap, Rat(5, 10)) THEN "MEDIUM"
  ELSE "LOW"

(* a classifier for which a gap above 0.5 is not enough for MEDIUM *)
Priority_nogap(avg, gap) ==
  IF RatGE(avg, Rat(45, 10)) THEN "URGENT"
  ELSE IF RatGE(avg, Rat(40, 10)) THEN "HIGH"
  ELSE IF RatGE(avg, Rat(35, 10)) THEN "MEDIUM"
  ELSE "LOW"

(* a gap taken the other way round *)
Gap_reversed(cohort_avg, overall_avg) == RatSub(overall_avg, cohort_avg)

(* recommendations.py: gap = cluster_avg - overall_avg
   self_assessment.py: gap = domain_avg - overall_avg *)
Gap(cohort_avg, overall_avg) == RatSub(cohort_avg, overall_avg)

(* recommendations.py: if gap > 0.3 or cluster_avg >= 3.5
   self_assessment.py: if domain_avg >= 3.5 or gap > 0.3 *)
Included(avg, gap) == RatGT(gap, Rat(3, 10)) \/ RatGE(avg, Rat(35, 10))

(* the if / elif chain that assigns priority *)
Priority(avg, gap) ==
  IF RatGE(avg, Rat(45, 10)) THEN "URGENT"
  ELSE IF RatGE(avg, Rat(40, 10)) THEN "HIGH"
  ELSE IF RatGE(avg, Rat(35, 10)) \/ RatGT(gap, Rat(5, 10)) THEN "MEDIUM"
  ELSE "LOW"

(* priority_order = {'URGENT': 4, 'HIGH': 3, 'MEDIUM': 2, 'LOW': 1}, .get(p, 0) *)
priority_order(p) ==
  CASE p = "URGENT" -> 4 [] p = "HIGH" -> 3 [] p = "MEDIUM" -> 2 [] p = "LOW" -> 1
    [] OTHER -> 0

(* the keys of DOMAIN_NAMES (config.py), which get_domain_names() returns *)
DOMAIN_NAMES ==
  { <<"1">>, <<"2">>, <<"3">>, <<"4">>, <<"5">>, <<"6">>, <<"7">>, <<"8">>, <<"9">>,
    <<"1", "0">>, <<"1", "1">>, <<"1", "2">>, <<"1", "3">> }

(* domain_names.get(domain, f"Domain {domain}"): the name of the lookup,
   written <<"name", id>>, or the generated label *)
DomainName(dom) ==
  IF dom \in DOMAIN_NAMES THEN <<"name", dom>> ELSE <<"Domain ", dom>>

(* one entry of the recommendations list; avg is 'cluster_avg' in
   recommendations.py and 'avg_rating' in self_assessment.py *)
Rec(dom, avg, gap) ==
  [domain |-> dom, name |-> DomainName(dom), avg |-> avg, gap |-> gap,
   priority |-> Priority(avg, gap)]

(* recommendations.py lines 46-69: the list built by the loop over
   sorted(domain_mapping.items(), key=lambda x: int(x[0])) *)
RecommendationsFor(d, c) ==
  LET doms == DomainsByInt(DomainMapping(d))
      cluster_data == ClusterRows(d, c)
      all == List([i \in 1..Len(doms) |->
                LET cluster_avg == MeanOfColMeans(d, cluster_data, doms[i].cols)
                    overall_avg == MeanOfColMeans(d, RowIds(d), doms[i].cols)
                IN Rec(doms[i].domain, cluster_avg, Gap(cluster_avg, overall_avg))])
  IN SelectSeq(all, LAMBDA r : Included(r.avg, r.gap))

(* sorted(recommendations, key=lambda x: (x['cluster_avg'], x['gap']), reverse=True) *)
RecKeyBefore(x, y) ==
  RatGT(x.avg, y.avg) \/ (RatEQ(x.avg, y.avg) /\ RatGT(x.gap, y.gap))

SortedByAvgGap(recs) ==
  SortedBy(recs, [p \in Range(recs) \X Range(recs) |-> RecKeyBefore(p[1], p[2])])

recommendations_sorted(d, c) == SortedByAvgGap(RecommendationsFor(d, c))

----------------------------------------------------------------------------
(* get_clustering_model: column-mean imputation, StandardScaler, KMeans     *)
(*                                                                         *)
(* Exact arithmetic.  For feature j with cnt[j] present cells the imputed   *)
(* column times cnt[j] is integral (a present cell x gives cnt[j] * x, a    *)
(* missing one the sum of the present cells), and with n rows               *)
(*    dev[r][j] = n * cnt[j] * (X[r][j] - mean_[j])                         *)
(* is an integer.  StandardScaler divides by the standard deviation, so a   *)
(* squared distance in scaled space is Sum_j (dev difference)^2 / V[j] up   *)
(* to one common factor, where V[j] = Sum_r dev[r][j]^2.  A feature with    *)
(* zero variance is scaled by 1 (scale_ = 1) and every row and every centre *)
(* has the same value there, so it adds the same amount to the distance to  *)
(* every centre: its weight in comparisons is 0.                            *)

RECURSIVE Gcd(_, _)
Gcd(a, b) == IF b = 0 THEN a ELSE Gcd(b, a % b)
Lcm(a, b) == (a \div Gcd(a, b)) * b

RECURSIVE LcmSeq(_)
LcmSeq(s) == IF s = << >> THEN 1 ELSE Lcm(Head(s), LcmSeq(Tail(s)))

Present(colv) == SelectSeq(colv, LAMBDA v : v # NAN)

(* X.fillna(X.mean(numeric_only=True)), every cell of column j times the
   number of present cells of that column *)
Imputed(cols, n) ==
  List([r \in 1..n |-> List([j \in 1..Len(cols) |->
          IF cols[j][r] = NAN THEN SumSeq(Present(cols[j]))
          ELSE Len(Present(cols[j])) * cols[j][r]])])

(* the column sums of a matrix given as its rows *)
ColumnTotals(rows, m) ==
  List([j \in 1..m |-> SumSeq(List([r \in 1..Len(rows) |-> rows[r][j]]))])

(* n * cnt[j] * (X[r][j] - mean_[j]) *)
Deviations(xp, tot) ==
  List([r \in 1..Len(xp) |-> List([j \in 1..Len(tot) |-> Len(xp) * xp[r][j] - tot[j]])])

(* the variance of feature j up to a factor *)
SquareTotals(dev, m) ==
  List([j \in 1..m |-> SumSeq(List([r \in 1..Len(dev) |-> dev[r][j] * dev[r][j]]))])

(* 1 / V[j] times the least common multiple of the positive V *)
Weights(V, L) == List([j \in 1..Len(V) |-> IF V[j] = 0 THEN 0 ELSE L \div V[j]])

StatsOfDeviations(feats, cols, tot, dev, V) ==
  [features |-> feats, n |-> Len(dev),
   cnt |-> List([j \in 1..Len(cols) |-> Len(Present(cols[j]))]),
   tot |-> tot, dev |-> dev, V |-> V,
   w |-> Weights(V, LcmSeq(SelectSeq(V, LAMBDA v : v > 0)))]

StatsOfTotals(feats, cols, tot, dev) ==
  StatsOfDeviations(feats, cols, tot, dev, SquareTotals(dev, Len(feats)))

StatsOfImputed(feats, cols, xp, tot) ==
  StatsOfTotals(feats, cols, tot, Deviations(xp, tot))

StatsOfColumns(feats, cols, xp) ==
  StatsOfImputed(feats, cols, xp, ColumnTotals(xp, Len(feats)))

StatsOfFeatures(d, feats, cols) == StatsOfColumns(feats, cols, Imputed(cols, Len(d.rows)))

FeatureColumns(d, feats) == List([j \in 1..Len(feats) |-> Column(d, feats[j])])

(* X = df[features]; X = X.fillna(X.mean(numeric_only=True));
   scaler.fit_transform(X): what the scaler learns and the scaled rows *)
FitStats(d) == StatsOfFeatures(d, CompetencyCols(d), FeatureColumns(d, CompetencyCols(d)))

(* a centre is the mean of its member rows: the sum S of their dev vectors
   and their number cnt *)
Centre(S, cnt) == [S |-> S, cnt |-> cnt]

(* squared scaled distance from the point with dev vector e to centre c,
   times c.cnt^2 (and the common factor) *)
Dist2Num(w, e, c) ==
  SumSeq(List([j \in 1..Len(w) |->
                 w[j] * (c.cnt * e[j] - c.S[j]) * (c.cnt * e[j] - c.S[j])]))

(* centre a is strictly nearer than centre b, given the distances dist *)
Nearer(dist, centres, a, b) ==
  dist[a] * centres[b].cnt * centres[b].cnt < dist[b] * centres[a].cnt * centres[a].cnt

ArgMin(dist, centres) ==
  CHOOSE k \in 1..Len(centres) :
    /\ \A o \in 1..Len(centres) : ~Nearer(dist, centres, o, k)
    /\ \A o \in 1..(k - 1) : Nearer(dist, centres, k, o)

(* argmin over the centres, the lowest index on a tie; ids are 0-based *)
NearestCentre(w, e, centres) ==
  ArgMin(List([k \in 1..Len(centres) |-> Dist2Num(w, e, centres[k])]), centres) - 1

(* the generator behind random_state: a fixed function of the seed (a small
   linear congruential generator stands for numpy's RandomState) *)
NextRandom(x) == (75 * x + 74) % 65537

RECURSIVE RandomAfter(_, _)
RandomAfter(seed, k) == IF k = 0 THEN seed ELSE NextRandom(RandomAfter(seed, k - 1))

(* the rows a k-means++ draw can take: a row that coincides with a centre
   already drawn has probability 0 while another row is left *)
Candidates(st, chosen, rest) ==
  IF \E r \in rest : \A c \in Range(chosen) : st.dev[c] # st.dev[r]
  THEN SetToSeq({ r \in rest : \A c \in Range(chosen) : st.dev[c] # st.dev[r] })
  ELSE SetToSeq(rest)

Draw(cand, y) == cand[(y % Len(cand)) + 1]

(* init='k-means++': k data rows drawn with the generator *)
RECURSIVE SeedRows(_, _, _, _)
SeedRows(st, x, chosen, k) ==
  IF k = 0 THEN chosen
  ELSE SeedRows(st, NextRandom(x),
                Append(chosen,
                       Draw(Candidates(st, chosen, (1..st.n) \ Range(chosen)),
                            NextRandom(x))),
                k - 1)

(* the mean of the rows in members, or the old centre when there are none *)
MovedCentre(st, members, old) ==
  IF members = << >> THEN old
  ELSE Centre(List([j \in 1..Len(st.w) |->
                 SumSeq(List([i \in 1..Len(members) |-> st.dev[members[i]][j]]))]),
              Len(members))

Relabelled(st, centres, label) ==
  List([k \in 1..Len(centres) |->
          MovedCentre(st, SelectSeq(SetToSeq(1..st.n), LAMBDA r : label[r] = k),
                      centres[k])])

(* one Lloyd iteration: assign every row to its nearest centre, move every
   centre to the mean of its rows (a centre without rows stays) *)
LloydStep(st, centres) ==
  Relabelled(st, centres,
             List([r \in 1..st.n |-> NearestCentre(st.w, st.dev[r], centres) + 1]))

(* max_iter of sklearn's KMeans (its default) *)
KMEANS_MAX_ITER == 300

RECURSIVE Lloyd(_, _, _)
RECURSIVE LloydFrom(_, _, _, _)
LloydFrom(st, centres, next, iter) ==
  IF iter = 0 \/ next = centres THEN centres ELSE Lloyd(st, next, iter - 1)

Lloyd(st, centres, iter) == LloydFrom(st, centres, LloydStep(st, centres), iter)

InitialCentres(st, rows) == List([k \in 1..NUM_CLUSTERS |-> Centre(st.dev[rows[k]], 1)])

(* one of the n_init runs, started from the generator state x *)
KMeansRun(st, x) ==
  Lloyd(st, InitialCentres(st, SeedRows(st, x, << >>, NUM_CLUSTERS)), KMEANS_MAX_ITER)

(* inertia of converged centres, up to sign and a constant: the larger the
   value the smaller the within-cluster sum of squares *)
Compactness(st, centres) ==
  RatSum(List([k \in 1..Len(centres) |->
            Rat(SumSeq(List([j \in 1..Len(st.w) |->
                               st.w[j] * centres[k].S[j] * centres[k].S[j]])),
                centres[k].cnt)]))

(* n_init=10 *)
KMEANS_N_INIT == 10

(* the run with the lowest inertia, the first one on a tie *)
BestRun(run, score) ==
  run[CHOOSE i \in 1..Len(run) :
        /\ \A o \in 1..Len(run) : ~RatGT(score[o], score[i])
        /\ \A o \in 1..(i - 1) : RatGT(score[i], score[o])]

ScoredRuns(st, run) == BestRun(run, List([i \in 1..Len(run) |-> Compactness(st, run[i])]))

(* KMeans(n_clusters, init='k-means++', random_state=seed, n_init=10).fit *)
KMeansFit(st, seed) ==
  ScoredRuns(st, List([i \in 1..KMEANS_N_INIT |-> KMeansRun(st, RandomAfter(seed, i))]))

(* one cell of X.fillna(X.mean(numeric_only=True)) as a float: a missing
   cell takes the mean of the present cells of its column; the mean of a
   column without any value is NaN and fills nothing *)
FilledCell(colv, r) ==
  IF colv[r] # NAN THEN Rat(colv[r], 1)
  ELSE IF Present(colv) = << >> THEN FNAN
  ELSE Rat(SumSeq(Present(colv)), Len(Present(colv)))

(* X after line 176, row by row *)
FilledMatrix(d, cols) ==
  List([r \in 1..Len(d.rows) |-> List([j \in 1..Len(cols) |-> FilledCell(cols[j], r)])])

(* the matrices scaler.fit_transform(X) is called with in one run of the
   body: none when X.empty raised at line 179 *)
ScalerInput(d) ==
  IF CompetencyCols(d) = << >> THEN << >>
  ELSE <<FilledMatrix(d, FeatureColumns(d, CompetencyCols(d)))>>

(* a get_clustering_model without the test of X.empty *)
FitRaises_silent(d) ==
  \/ Len(d.rows) < NUM_CLUSTERS
  \/ \E col \in Range(CompetencyCols(d)) : Present(Column(d, col)) = << >>

(* the exceptions get_clustering_model ends with: no competency column
   (X.empty), fewer rows than clusters (KMeans.fit), a feature without any
   value (the NaN left by fillna reaches KMeans.fit) *)
FitRaises(d) ==
  \/ CompetencyCols(d) = << >>
  \/ Len(d.rows) < NUM_CLUSTERS
  \/ \E col \in Range(CompetencyCols(d)) : Present(Column(d, col)) = << >>

ArtifactsOf(st, seed) ==
  [features |-> st.features,
   scaler |-> [n |-> st.n, cnt |-> st.cnt, tot |-> st.tot, V |-> st.V, w |-> st.w],
   kmeans |-> KMeansFit(st, seed)]

(* return kmeans, scaler, features *)
Artifacts(d, seed) == ArtifactsOf(FitStats(d), seed)

----------------------------------------------------------------------------
(* Python values and dicts                                                 *)
(*                                                                         *)
(* A value of an input mapping is [t |-> type, v |-> Int]:                 *)
(*   "int"   an int or float with the integral value v                      *)
(*   "numstr" a str that float() parses, with the value v                   *)
(*   "text"  a str that float() rejects (ValueError)                        *)
(*   "none"  None (TypeError)                                               *)
(*   "nan"   float('nan')                                                   *)
(*   "huge"  an int too large for a float (OverflowError)                   *)
(* A dict is the sequence of its <<key, value>> items in insertion order.   *)

PyInt(v) == [t |-> "int", v |-> v]
PyNumStr(v) == [t |-> "numstr", v |-> v]
PyText == [t |-> "text", v |-> 0]
PyNone == [t |-> "none", v |-> 0]
PyNaN == [t |-> "nan", v |-> 0]
PyHuge == [t |-> "huge", v |-> 0]

DictKeys(m) == List([i \in 1..Len(m) |-> m[i][1]])
DictHas(m, k) == \E i \in 1..Len(m) : m[i][1] = k
DictGet(m, k) == m[CHOOSE i \in 1..Len(m) : m[i][1] = k][2]

----------------------------------------------------------------------------
(* predict_cluster                                                         *)

Min(a, b) == IF a < b THEN a ELSE b
Max(a, b) == IF a > b THEN a ELSE b

(* float(value) raises something other than ValueError or TypeError, which
   the inner except clause does not catch *)
FloatOverflows(value) == value.t = "huge"

(* a conversion that forgets max(1, min(5, value)) *)
ClampRating_unclamped(value) ==
  CASE value.t \in {"int", "numstr"} -> value.v
    [] value.t = "nan" -> 5
    [] OTHER -> 3

(* a feature loop that fills a missing or unparseable rating with the lowest
   rating instead of the midpoint *)
FeatureValue_lowest(new_data, feature) ==
  IF DictHas(new_data, feature)
       /\ DictGet(new_data, feature).t \in {"int", "numstr", "nan"}
  THEN Max(1, Min(5, IF DictGet(new_data, feature).t = "nan" THEN 5
                     ELSE DictGet(new_data, feature).v))
  ELSE 1

(* a vector that keeps the competency keys in the order the input has them *)
VectorKeys_input(new_data, features) ==
  SelectSeq(DictKeys(new_data), LAMBDA k : k \in {features[j] : j \in 1..Len(features)})

(* try: value = float(value); value = max(1, min(5, value))
   except (ValueError, TypeError): value = 3
   min(5, nan) is 5 because nan < 5 is False *)
ClampRating(value) ==
  CASE value.t \in {"int", "numstr"} -> Max(1, Min(5, value.v))
    [] value.t = "nan" -> 5
    [] OTHER -> 3

(* the feature loop: feature_dict[feature] for one feature *)
FeatureValue(new_data, feature) ==
  IF DictHas(new_data, feature) THEN ClampRating(DictGet(new_data, feature))
  ELSE 3

(* the keys the loop `for feature in features` visits and the column
   selection [features] keeps *)
VectorKeys(new_data, features) == features

(* X_new = pd.DataFrame([feature_dict])[features], as <<key, value>> items *)
XNewOf(new_data, keys) ==
  List([j \in 1..Len(keys) |-> <<keys[j], FeatureValue(new_data, keys[j])>>])

XNew(new_data, features) == XNewOf(new_data, VectorKeys(new_data, features))

(* float() raises out of the feature loop, before X_new exists *)
LoopRaises(new_data, features) ==
  \E j \in 1..Len(features) :
     /\ DictHas(new_data, features[j])
     /\ FloatOverflows(DictGet(new_data, features[j]))

(* scaler.transform rejects columns that are not the fitted ones in the
   fitted order *)
TransformRaises(x, art) == DictKeys(x) # art.features

(* scaler.transform(X_new) then kmeans.predict(...)[0] *)
ScaleAndPredict(x, art) ==
  NearestCentre(art.scaler.w,
                List([j \in 1..Len(x) |->
                        art.scaler.n * art.scaler.cnt[j] * x[j][2] - art.scaler.tot[j]]),
                art.kmeans)

(* a predict_cluster that fits the scaler on the new row as well
   (partial_fit): one more sample seen, its values added to the column sums *)
AfterTransform_refit(art, x) ==
  [art EXCEPT !.scaler.n = @ + 1,
              !.scaler.tot = List([j \in 1..Len(@) |-> @[j] + art.scaler.cnt[j] * x[j][2]])]

(* kmeans, scaler and features as the calls scaler.transform(X_new) and
   kmeans.predict(X_new_scaled) leave them: both only read the fitted
   attributes, and predict_cluster assigns to none of its arguments *)
AfterTransform(art, x) == art

(* predict_cluster(new_data, kmeans, scaler, features): whether it raised,
   the X_new it handed to scaler.transform (none if it did not get there),
   the cluster id it returned, and the three fitted objects after the call *)
PredictFrom(x, art) ==
  IF TransformRaises(x, art)
  THEN [raised |-> TRUE, X_new |-> x, cluster |-> << >>, art |-> art]
  ELSE [raised |-> FALSE, X_new |-> x, cluster |-> <<ScaleAndPredict(x, art)>>,
        art |-> AfterTransform(art, x)]

PredictCluster(new_data, art) ==
  IF LoopRaises(new_data, art.features)
  THEN [raised |-> TRUE, X_new |-> << >>, cluster |-> << >>, art |-> art]
  ELSE PredictFrom(XNew(new_data, art.features), art)

----------------------------------------------------------------------------
(* st.cache_resource in front of get_clustering_model: entries keyed by the  *)
(* content of the DataFrame argument; a call that raises stores nothing     *)

CacheHit(cache, d) == \E e \in cache : e.key = d
CacheValue(cache, d) == (CHOOSE e \in cache : e.key = d).value

(* KMeans without random_state: every fit draws its own seed *)
RandomStateSeeds_unseeded(random_state) == random_state..(random_state + 3)

(* the compute lock left out of the miss path *)
LockFree_unlocked(lock, key) == TRUE

(* st.cache_resource takes cache.compute_value_lock(key) around the second
   lookup and the call of the function *)
LockFree(lock, key) == key \notin lock

(* random_state=CLUSTER_RANDOM_STATE: the seeds a fit may start from *)
RandomStateSeeds(random_state) == {random_state}

(* the function ran: its result is stored under the key and returned *)
Stored(cache, d, art) ==
  [raised |-> FALSE, value |-> <<art>>, cache |-> cache \cup {[key |-> d, value |-> art]}]

(* the cache hands out the objects it stores, not copies: what a caller
   leaves of them is what the next caller gets *)
WithEntry(cache, d, art) ==
  { e \in cache : e.key # d } \cup {[key |-> d, value |-> art]}

(* one call get_clustering_model(d) made alone, with its effect on the cache *)
GetModel(cache, d, seed) ==
  IF CacheHit(cache, d)
  THEN [raised |-> FALSE, value |-> <<CacheValue(cache, d)>>, cache |-> cache]
  ELSE IF FitRaises(d)
  THEN [raised |-> TRUE, value |-> << >>, cache |-> cache]
  ELSE Stored(cache, d, Artifacts(d, seed))

----------------------------------------------------------------------------
(* The data sets and form inputs the specifications draw from               *)

COL_1A == <<"1", ".", "a">>
COL_1B == <<"1", ".", "b">>
COL_2A == <<"2", ".", "a">>
COL_NAME == <<"N">>

(* two spreadsheets: two domains of one competency each, in a column order
   that is not the order of the form; and one domain of two competencies *)
TwoDomainColumns == <<COL_2A, COL_NAME, COL_1A, CLUSTER_COL>>
OneDomainColumns == <<COL_1B, COL_1A, CLUSTER_COL>>

TwoDomainRows ==
  << <<2, 0, 3, 0>>,
     <<1, 0, 2, 1>>,
     <<1, 0, 3, 1>>,
     <<5, 0, 4, 2>>,
     <<NAN, 0, 5, 1>> >>

OneDomainRows ==
  << <<3, 4, 0>>,
     <<NAN, 2, 0>>,
     <<5, 5, 1>>,
     <<1, NAN, 1>>,
     <<2, 3, 0>> >>

MaxRows == 3

(* the rows of pool at the indices in ids, in pool order *)
RowsAt(pool, ids) == LET q == SetToSeq(ids) IN List([i \in 1..Len(q) |-> pool[q[i]]])

DatasetsOver(columns, pool) ==
  { [columns |-> columns, rows |-> RowsAt(pool, ids)] :
      ids \in { S \in SUBSET (1..Len(pool)) : S # {} /\ Cardinality(S) <= MaxRows } }

(* the first n rows of each of the two spreadsheets *)
FirstRows(n) ==
  <<[columns |-> TwoDomainColumns, rows |-> SubSeq(TwoDomainRows, 1, n)],
    [columns |-> OneDomainColumns, rows |-> SubSeq(OneDomainRows, 1, n)]>>

(* a spreadsheet whose only rating column belongs to domain 14, which no
   prefix of the pages matches; and one whose second competency column has
   no value in any row *)
COL_14A == <<"1", "4", ".", "a">>

NoCompetencyFrame ==
  [columns |-> <<COL_14A, COL_NAME, CLUSTER_COL>>,
   rows |-> << <<4, 0, 0>>, <<2, 0, 1>>, <<5, 0, 2>> >>]

EmptyColumnFrame ==
  [columns |-> <<COL_1A, COL_2A, CLUSTER_COL>>,
   rows |-> << <<3, NAN, 0>>, <<1, NAN, 1>>, <<5, NAN, 2>> >>]

EdgeFrames == {NoCompetencyFrame, EmptyColumnFrame}

(* a spreadsheet with ratings for domain 14 next to those for domain 1 *)
Domain14Columns == <<COL_14A, COL_1A, CLUSTER_COL>>

Domain14Rows ==
  << <<5, 3, 0>>,
     <<4, 2, 1>>,
     <<5, 4, 2>> >>

Datasets == DatasetsOver(TwoDomainColumns, TwoDomainRows)
              \cup DatasetsOver(OneDomainColumns, OneDomainRows)
              \cup DatasetsOver(Domain14Columns, Domain14Rows)
              \cup DatasetsOver(NoCompetencyFrame.columns, NoCompetencyFrame.rows)

----------------------------------------------------------------------------
(* security.py: input sanitising, validation, password hashes               *)

LOWERCASE == <<"a", "b", "c", "d", "e", "f", "g", "h", "i", "j", "k", "l", "m",
               "n", "o", "p", "q", "r", "s", "t", "u", "v", "w", "x", "y", "z">>
UPPERCASE == <<"A", "B", "C", "D", "E", "F", "G", "H", "I", "J", "K", "L", "M",
               "N", "O", "P", "Q", "R", "S", "T", "U", "V", "W", "X", "Y", "Z">>
DIGITS == <<"0", "1", "2", "3", "4", "5", "6", "7", "8", "9">>

(* str.lower() *)
LowerOf == [c \in Range(UPPERCASE) |-> LOWERCASE[IndexOf(UPPERCASE, c)]]

LowerChar(c) == IF c \in DOMAIN LowerOf THEN LowerOf[c] ELSE c

StrLower(s) == List([i \in 1..Len(s) |-> LowerChar(s[i])])

(* str.strip() *)
RECURSIVE LStrip(_)
LStrip(s) == IF s # << >> /\ Head(s) = " " THEN LStrip(Tail(s)) ELSE s

RECURSIVE RStrip(_)
RStrip(s) ==
  IF s # << >> /\ s[Len(s)] = " " THEN RStrip(SubSeq(s, 1, Len(s) - 1)) ELSE s

Strip(s) == RStrip(LStrip(s))

(* re.sub(r'<[^>]+>', '', text): from a '<', the match runs to the first '>'
   behind it, with at least one character in between *)
RECURSIVE RemoveTags(_)
RemoveTags(s) ==
  IF s = << >> THEN << >>
  ELSE IF /\ Head(s) = "<"
          /\ \E j \in 3..Len(s) : s[j] = ">" /\ \A i \in 2..(j - 1) : s[i] # ">"
  THEN RemoveTags(SubSeq(s, 1 + (CHOOSE j \in 3..Len(s) :
                                   s[j] = ">" /\ \A i \in 2..(j - 1) : s[i] # ">"),
                         Len(s)))
  ELSE <<Head(s)>> \o RemoveTags(Tail(s))

(* re.sub(r'[<>"\']', '', text) *)
RemoveDangerous(s) == SelectSeq(s, LAMBDA c : c \notin {"<", ">", "\"", "'"})

(* sanitize_input(text, max_length) *)
sanitize_input(text, max_length) ==
  IF text = << >> THEN << >>
  ELSE LET clean == Strip(RemoveDangerous(RemoveTags(text)))
       IN IF Len(clean) > max_length THEN SubSeq(clean, 1, max_length) ELSE clean

USERNAME_MIN_LEN == 3
USERNAME_MAX_LEN == 20

(* reserved = ['admin', 'administrator', 'root', 'system', 'null', 'undefined'] *)
RESERVED ==
  { <<"a", "d", "m", "i", "n">>,
    <<"a", "d", "m", "i", "n", "i", "s", "t", "r", "a", "t", "o", "r">>,
    <<"r", "o", "o", "t">>, <<"s", "y", "s", "t", "e", "m">>,
    <<"n", "u", "l", "l">>, <<"u", "n", "d", "e", "f", "i", "n", "e", "d">> }

(* re.match(r'^[a-zA-Z0-9_]+$', username) on a str without line breaks *)
WordChars == Range(LOWERCASE) \cup Range(UPPERCASE) \cup Range(DIGITS) \cup {"_"}

MatchesWord(s) == s # << >> /\ \A i \in 1..Len(s) : s[i] \in WordChars

(* validate_username(username): the error message, "" when valid *)
validate_username(username) ==
  LET name == Strip(username)
  IN IF username = << >> THEN "Username cannot be empty"
     ELSE IF Len(name) < USERNAME_MIN_LEN THEN "Username must be at least 3 characters"
     ELSE IF Len(name) > USERNAME_MAX_LEN THEN "Username must be at most 20 characters"
     ELSE IF ~MatchesWord(name)
     THEN "Username can only contain letters, numbers, and underscores"
     ELSE IF StrLower(name) \in RESERVED THEN "This username is reserved"
     ELSE ""

PASSWORD_MIN_LEN == 8
PASSWORD_MAX_LEN == 128

(* validate_password(password): the error message, "" when valid *)
validate_password(password) ==
  IF password = << >> THEN "Password cannot be empty"
  ELSE IF Len(password) < PASSWORD_MIN_LEN THEN "Password must be at least 8 characters"
  ELSE IF Len(password) > PASSWORD_MAX_LEN
  THEN "Password is too long (maximum 128 characters)"
  ELSE IF \/ ~\E i \in 1..Len(password) :
                password[i] \in Range(LOWERCASE) \cup Range(UPPERCASE)
          \/ ~\E i \in 1..Len(password) : password[i] \in Range(DIGITS)
  THEN "Password must contain at least one letter and one number"
  ELSE ""

(* hash_password(password) with the salt secrets.token_hex drew: the str
   sha256(password + salt) ":" salt.  SHA-256 is taken to be free of
   collisions, so a digest is written as the text it was computed from; the
   salt has a fixed length, so password + salt determines both parts. *)
hash_password(password, salt) == [digest |-> <<password, salt>>, salt |-> <<salt>>]

(* a hash stored before salts were used: sha256(password), no ':' in it *)
LegacyHash(password) == [digest |-> <<password>>, salt |-> << >>]

(* verify_password(password, hashed_password): rsplit(":", 1) raises
   ValueError on a hash without ':', which is then compared unsalted *)
verify_password(password, hashed_password) ==
  IF hashed_password.salt # << >>
  THEN <<password, hashed_password.salt[1]>> = hashed_password.digest
  ELSE <<password>> = hashed_password.digest

----------------------------------------------------------------------------
(* auth.py: the user store, signup and login                                *)

DEFAULT_ADMIN_USERNAME == <<"a", "d", "m", "i", "n", "i", "s", "t", "r", "a", "t", "o", "r">>
DEFAULT_ADMIN_PASSWORD == <<"a", "d", "m", "i", "n", "1", "2", "3">>
ROLE_ADMIN == "admin"
ROLE_TEACHER == "teacher"

(* the failed attempts after which login answers "Account locked" (line 190) *)
LOCK_THRESHOLD == 5

(* USERS_FILE: absent, or holding the JSON text of a dict of users, or
   opened for writing and not written yet (empty, which json.load rejects).
   The copy save_users makes in USERS_FILE.backup is read by no code and is
   left out. *)
NoUsersFile == [state |-> "absent", users |-> << >>]
TruncatedFile == [state |-> "truncated", users |-> << >>]
JsonFile(users) == [state |-> "json", users |-> users]

(* users[k] = v on a dict: in place for a key it has, else at the end *)
DictSet(m, k, v) ==
  IF DictHas(m, k)
  THEN List([i \in 1..Len(m) |-> IF m[i][1] = k THEN <<k, v>> ELSE m[i]])
  ELSE Append(m, <<k, v>>)

(* load_users lines 34-42 *)
DefaultAdminRecord(salt) ==
  [password |-> hash_password(DEFAULT_ADMIN_PASSWORD, salt), role |-> ROLE_ADMIN,
   created_at |-> "2024-01-01 00:00:00", last_login |-> "None", failed_attempts |-> 0]

default_admin(salt) == <<<<DEFAULT_ADMIN_USERNAME, DefaultAdminRecord(salt)>>>>

(* load_users lines 44-55: the dict read, the default admin alone when the
   file is absent or json.load raises *)
ReadUsers(file, salt) == IF file.state = "json" THEN file.users ELSE default_admin(salt)

(* the read of line 47 raised and line 51 replaced the dict *)
ReadFailed(file) == file.state = "truncated"

(* load_users lines 57-64 on the dict read *)
EnsureAdmin(users, salt) ==
  IF ~DictHas(users, DEFAULT_ADMIN_USERNAME)
  THEN DictSet(users, DEFAULT_ADMIN_USERNAME, DefaultAdminRecord(salt))
  ELSE IF DictGet(users, DEFAULT_ADMIN_USERNAME).password.salt = << >>
  THEN DictSet(users, DEFAULT_ADMIN_USERNAME,
               [DictGet(users, DEFAULT_ADMIN_USERNAME) EXCEPT
                  !.password = hash_password(DEFAULT_ADMIN_PASSWORD, salt)])
  ELSE users

(* load_users(): what it returns and what it leaves on disk; save_users is
   called for an absent file (line 54) and when the admin account was added
   or migrated (lines 60, 64) *)
load_users(file, salt) ==
  LET read == ReadUsers(file, salt)
      users == EnsureAdmin(read, salt)
  IN [users |-> users,
      file |-> IF file.state = "absent" \/ users # read THEN JsonFile(users) ELSE file]

(* signup lines 110-111, login lines 162-163 *)
CleanUsername(username) == sanitize_input(Strip(username), USERNAME_MAX_LEN)

(* signup lines 113-121: the message of the first validation that fails *)
SignupRejection(username, password) ==
  IF validate_username(username) # "" THEN validate_username(username)
  ELSE validate_password(password)

(* line 127 without lower() *)
UsernameTaken_exact(users, username) == DictHas(users, username)

(* line 127: username.lower() in [u.lower() for u in users.keys()] *)
UsernameTaken(users, username) ==
  \E i \in 1..Len(users) : StrLower(users[i][1]) = StrLower(username)

(* lines 132-138 with another role *)
NewAccount_admin(password, salt) ==
  [password |-> hash_password(password, salt), role |-> ROLE_ADMIN,
   created_at |-> "now", last_login |-> "None", failed_attempts |-> 0]

(* lines 132-138 *)
NewAccount(password, salt) ==
  [password |-> hash_password(password, salt), role |-> ROLE_TEACHER,
   created_at |-> "now", last_login |-> "None", failed_attempts |-> 0]

(* signup(username, password) on the file as it is; save_users is taken to
   succeed *)
signup(file, raw_username, raw_password, salt) ==
  LET username == CleanUsername(raw_username)
      password == Strip(raw_password)
      loaded == load_users(file, salt)
  IN IF SignupRejection(username, password) # ""
     THEN [ok |-> FALSE, message |-> SignupRejection(username, password),
           username |-> username, file |-> file]
     ELSE IF UsernameTaken(loaded.users, username)
     THEN [ok |-> FALSE, message |-> "Username already exists",
           username |-> username, file |-> loaded.file]
     ELSE [ok |-> TRUE, message |-> "Teacher account created successfully!",
           username |-> username,
           file |-> JsonFile(DictSet(loaded.users, username, NewAccount(password, salt)))]

(* login lines 171-177: the first key equal to the name up to case; << >>
   for None *)
MatchingUsername(users, username) ==
  IF UsernameTaken(users, username)
  THEN <<users[CHOOSE i \in 1..Len(users) :
                 /\ StrLower(users[i][1]) = StrLower(username)
                 /\ \A j \in 1..(i - 1) : StrLower(users[j][1]) # StrLower(username)][1]>>
  ELSE << >>

(* lines 185-193: a wrong password *)
FailedLogin(user) == [user EXCEPT !.failed_attempts = @ + 1]

(* line 185 *)
PasswordAccepted(password, user) == verify_password(password, user.password)

(* lines 196-197 *)
SuccessfulLogin(user) == [user EXCEPT !.last_login = "now", !.failed_attempts = 0]

NoRole == "None"

(* login(username, password) on the file as it is *)
login(file, raw_username, raw_password, salt) ==
  LET username == CleanUsername(raw_username)
      password == Strip(raw_password)
      loaded == load_users(file, salt)
      matching == MatchingUsername(loaded.users, username)
  IN IF username = << >> \/ password = << >>
     THEN [ok |-> FALSE, message |-> "Username and password are required",
           role |-> NoRole, account |-> << >>, file |-> file]
     ELSE IF matching = << >>
     THEN [ok |-> FALSE, message |-> "Invalid username or password",
           role |-> NoRole, account |-> << >>, file |-> loaded.file]
     ELSE LET user == DictGet(loaded.users, matching[1])
          IN IF ~PasswordAccepted(password, user)
             THEN [ok |-> FALSE,
                   message |-> IF FailedLogin(user).failed_attempts >= LOCK_THRESHOLD
                               THEN "Account locked due to too many failed attempts"
                               ELSE "Invalid username or password (n/5 attempts)",
                   role |-> NoRole, account |-> matching,
                   file |-> JsonFile(DictSet(loaded.users, matching[1], FailedLogin(user)))]
             ELSE [ok |-> TRUE, message |-> "Login successful!",
                   role |-> user.role, account |-> matching,
                   file |-> JsonFile(DictSet(loaded.users, matching[1],
                                             SuccessfulLogin(user)))]

----------------------------------------------------------------------------
(* State                                                                   *)

VARIABLES
  df,             \* the DataFrame main() got from load_data() and hands to the pages
  session_state,  \* st.session_state of the browser session, a dict
  model_cache,    \* the st.cache_resource store of get_clustering_model
  shown,          \* what the last script run rendered
  args,           \* the arguments of the function a specification applies
  result,         \* what the calls made so far came back with, oldest first
  data_file,      \* the content of DATA_FILE on disk
  data_cache,     \* the st.cache_data store of load_data: << >> or <<DataFrame>>
  calls,          \* per session, the script run it is in the middle of
  compute_lock,   \* the cache keys whose compute lock is held
  fits,           \* the data sets the body of get_clustering_model ran on, a bag
  users_file      \* USERS_FILE on disk: absent, or the JSON text it holds

vars == <<df, session_state, model_cache, shown, args, result,
          data_file, data_cache, calls, compute_lock, fits, users_file>>

(* what a specification of the pages, of one function, of the caches leaves alone *)
callVars == <<args, result>>
serverVars == <<data_file, data_cache, calls, compute_lock, fits>>
pageVars == <<session_state, shown>>

(* st.session_state as a function from its keys *)
HasKey(ss, k) == k \in DOMAIN ss
Put(ss, k, v) == [x \in (DOMAIN ss) \cup {k} |-> IF x = k THEN v ELSE ss[x]]
EmptyDict == [x \in {} |-> 0]

Blank == [page |-> "none", status |-> "none", cluster |-> << >>, recs |-> << >>,
          X_new |-> << >>]

----------------------------------------------------------------------------
(* recommendations.py: show_recommendations(df)                            *)

(* lines 11-12: the first run of the page selects the lowest label *)
WithSelectedCluster(ss) ==
  IF HasKey(ss, "selected_cluster_rec") THEN ss
  ELSE Put(ss, "selected_cluster_rec", MinLabel(df))

(* lines 29-122: everything below the cluster buttons *)
RenderRecommendations(ss) ==
  [page |-> "Training Recommendations", status |-> "ok",
   cluster |-> <<ss["selected_cluster_rec"]>>,
   recs |-> recommendations_sorted(df, ss["selected_cluster_rec"]),
   X_new |-> << >>]

(* a script run that routes to the page, no button pressed *)
OpenRecommendations ==
  /\ session_state' = WithSelectedCluster(session_state)
  /\ shown' = RenderRecommendations(session_state')
  /\ UNCHANGED <<users_file, df, model_cache, callVars, serverVars>>

(* lines 18-27: a cluster button is pressed; st.rerun() renders the page
   again with the new selection *)
SelectCluster(c) ==
  /\ shown.page = "Training Recommendations"
  /\ c \in ClusterLabels(df)
  /\ session_state' = Put(session_state, "selected_cluster_rec", c)
  /\ shown' = RenderRecommendations(session_state')
  /\ UNCHANGED <<users_file, df, model_cache, callVars, serverVars>>

----------------------------------------------------------------------------
(* self_assessment.py: show_self_assessment(df)                            *)

RECURSIVE Flatten(_)
Flatten(ss) == IF ss = << >> THEN << >> ELSE Head(ss) \o Flatten(Tail(ss))

(* what a run of the page computes from df alone: competency_cols (line 54),
   domain_mapping (lines 60-65) in the order sorted(..., key=int) every loop
   of the page uses, and overall_avg of each domain (line 153) *)
AssessmentPage(d) ==
  LET doms == DomainsByInt(DomainMapping(d))
  IN [competency_cols |-> CompetencyCols(d),
      domains |-> doms,
      overall_avg |-> List([i \in 1..Len(doms) |->
                              MeanOfColMeans(d, RowIds(d), doms[i].cols)])]

(* sorted(domain_mapping[domain_num]) *)
SortedCols(cols) ==
  SortedBy(cols, [p \in Range(cols) \X Range(cols) |-> StrLess(p[1], p[2])])

(* lines 80-99: the radio buttons, per domain by int(domain_num), within a
   domain by sorted(column names) *)
FormKeys(pg) ==
  Flatten(List([i \in 1..Len(pg.domains) |-> SortedCols(pg.domains[i].cols)]))

(* lines 69-71 *)
WithAssessmentKeys(ss) ==
  IF HasKey(ss, "assessment_submitted") THEN ss
  ELSE Put(Put(ss, "assessment_submitted", FALSE), "assessment_data", << >>)

(* lines 105-108: {'Timestamp': ...} updated with the ratings of the form *)
AssessmentData(pg, ratings) ==
  LET keys == FormKeys(pg)
  IN <<<<TIMESTAMP_KEY, PyText>>>>
       \o [i \in 1..Len(keys) |-> <<keys[i], PyInt(ratings[keys[i]])>>]

(* lines 149-172: domain_ratings, domain_avg, gap and the list of the
   respondent's recommendations *)
SelfRecommendations(pg, data) ==
  LET all == List([i \in 1..Len(pg.domains) |->
                LET cols == pg.domains[i].cols
                    domain_ratings == List([k \in 1..Len(cols) |-> DictGet(data, cols[k]).v])
                    domain_avg == NpMean(domain_ratings)
                IN Rec(pg.domains[i].domain, domain_avg,
                       Gap(domain_avg, pg.overall_avg[i]))])
  IN SelectSeq(all, LAMBDA r : Included(r.avg, r.gap))

(* recommendations.sort(key=lambda x: (priority_order.get(x['priority'], 0),
                                      x['avg_rating']), reverse=True) *)
SelfKeyBefore(x, y) ==
  \/ priority_order(x.priority) > priority_order(y.priority)
  \/ /\ priority_order(x.priority) = priority_order(y.priority)
     /\ RatGT(x.avg, y.avg)

SortedByPriorityAvg(recs) ==
  SortedBy(recs, [p \in Range(recs) \X Range(recs) |-> SelfKeyBefore(p[1], p[2])])

SelfRecommendationsSorted(pg, data) == SortedByPriorityAvg(SelfRecommendations(pg, data))

(* the condition of line 120 *)
ResultsVisible(ss) == ss["assessment_submitted"] /\ ss["assessment_data"] # << >>

(* lines 53-194 with the recommendation list of lines 147-189 rendered
   whether or not the model and the prediction are there *)
RenderSelfAssessment_partial(ss, gm, pg) ==
  IF pg.competency_cols = << >>
  THEN [Blank EXCEPT !.page = "Self Assessment", !.status = "no_competency_columns"]
  ELSE IF ~ResultsVisible(ss)
  THEN [Blank EXCEPT !.page = "Self Assessment", !.status = "form"]
  ELSE [Blank EXCEPT !.page = "Self Assessment",
                     !.status = IF gm.raised THEN "page_error" ELSE "ok",
                     !.cluster = IF gm.raised THEN << >>
                                 ELSE PredictCluster(ss["assessment_data"],
                                                     gm.value[1]).cluster,
                     !.recs = SelfRecommendationsSorted(pg, ss["assessment_data"])]

(* lines 53-194 after the form; gm is the outcome of the call
   get_clustering_model(df), whose exception this function does not catch *)
RenderSelfAssessment(ss, gm, pg) ==
  IF pg.competency_cols = << >>
  THEN [Blank EXCEPT !.page = "Self Assessment", !.status = "no_competency_columns"]
  ELSE IF ~ResultsVisible(ss)
  THEN [Blank EXCEPT !.page = "Self Assessment", !.status = "form"]
  ELSE IF gm.raised
  THEN [Blank EXCEPT !.page = "Self Assessment", !.status = "page_error"]
  ELSE LET data == ss["assessment_data"]
           pred == PredictCluster(data, gm.value[1])
       IN IF pred.raised
          THEN [Blank EXCEPT !.page = "Self Assessment", !.status = "predict_error",
                             !.X_new = pred.X_new]
          ELSE [page |-> "Self Assessment", status |-> "ok",
                cluster |-> pred.cluster,
                recs |-> SelfRecommendationsSorted(pg, data),
                X_new |-> pred.X_new]

NoCall == [raised |-> FALSE, value |-> << >>, cache |-> model_cache]

(* the cache after the run: with the fitted objects as predict_cluster (line
   133) left them, if the run got that far *)
CacheAfterPage(ss, gm, pg) ==
  IF pg.competency_cols # << >> /\ ResultsVisible(ss) /\ ~gm.raised
  THEN WithEntry(gm.cache, df, PredictCluster(ss["assessment_data"], gm.value[1]).art)
  ELSE gm.cache

(* one script run of the page on session state ss *)
RunSelfAssessment(ss, gm, pg) ==
  /\ session_state' = ss
  /\ model_cache' = CacheAfterPage(ss, gm, pg)
  /\ shown' = RenderSelfAssessment(ss, gm, pg)
  /\ UNCHANGED <<users_file, df, callVars, serverVars>>

(* a script run that routes to the page, no button pressed *)
OpenSelfAssessment ==
  /\ \E seed \in RandomStateSeeds(CLUSTER_RANDOM_STATE), pg \in {AssessmentPage(df)} :
       \E ss \in {IF pg.competency_cols = << >> THEN session_state
                  ELSE WithAssessmentKeys(session_state)} :
         RunSelfAssessment(ss,
                           IF pg.competency_cols # << >> /\ ResultsVisible(ss)
                           THEN GetModel(model_cache, df, seed) ELSE NoCall,
                           pg)

(* lines 102-113: "Submit Assessment" stores the ratings; st.rerun() runs the
   page again, which now shows the result *)
SubmitAssessment ==
  /\ shown.page = "Self Assessment"
  /\ shown.status # "no_competency_columns"
  /\ \E seed \in RandomStateSeeds(CLUSTER_RANDOM_STATE), pg \in {AssessmentPage(df)} :
       \E gm \in {GetModel(model_cache, df, seed)},
          ratings \in [Range(pg.competency_cols) -> MIN_RATING..MAX_RATING] :
            RunSelfAssessment(Put(Put(session_state, "assessment_data",
                                      AssessmentData(pg, ratings)),
                                  "assessment_submitted", TRUE), gm, pg)

(* index=0 of st.radio (line 94) *)
RADIO_INDEX == 0

(* the option a radio button of the form holds until the respondent picks
   another: options[index] of options=list(range(MIN_RATING, MAX_RATING + 1)) *)
RadioDefault == SetToSeq(MIN_RATING..MAX_RATING)[RADIO_INDEX + 1]

(* "Submit Assessment" pressed on the form as it was rendered, no radio
   button touched *)
SubmitBlankForm ==
  /\ shown.page = "Self Assessment"
  /\ shown.status # "no_competency_columns"
  /\ \E seed \in RandomStateSeeds(CLUSTER_RANDOM_STATE), pg \in {AssessmentPage(df)} :
       \E gm \in {GetModel(model_cache, df, seed)},
          ratings \in {[col \in Range(pg.competency_cols) |-> RadioDefault]} :
            RunSelfAssessment(Put(Put(session_state, "assessment_data",
                                      AssessmentData(pg, ratings)),
                                  "assessment_submitted", TRUE), gm, pg)

(* lines 123-126 without line 125: the ratings stay in the session *)
StartNewAssessment_keepdata ==
  /\ shown.page = "Self Assessment"
  /\ shown.status # "no_competency_columns"
  /\ ResultsVisible(session_state)
  /\ RunSelfAssessment(Put(session_state, "assessment_submitted", FALSE),
                       NoCall, AssessmentPage(df))

(* lines 123-126: the button exists only below a submitted assessment *)
StartNewAssessment ==
  /\ shown.page = "Self Assessment"
  /\ shown.status # "no_competency_columns"
  /\ ResultsVisible(session_state)
  /\ RunSelfAssessment(Put(Put(session_state, "assessment_submitted", FALSE),
                           "assessment_data", << >>), NoCall, AssessmentPage(df))

----------------------------------------------------------------------------
(* Spec: one browser session of an administrator on a loaded data set       *)

Init ==
  /\ df \in Datasets
  /\ session_state = EmptyDict
  /\ model_cache = {}
  /\ shown = Blank
  /\ args = << >>
  /\ result = << >>
  /\ data_file = df
  /\ data_cache = <<df>>
  /\ calls = << >>
  /\ compute_lock = {}
  /\ fits = << >>
  /\ users_file = NoUsersFile

Next ==
  \/ OpenRecommendations
  \/ \E c \in 0..(NUM_CLUSTERS - 1) : SelectCluster(c)
  \/ OpenSelfAssessment
  \/ SubmitAssessment
  \/ StartNewAssessment

Spec == Init /\ [][Next]_vars

(* SpecBlank: a respondent who never changes a rating of the form *)
NextBlank ==
  \/ OpenSelfAssessment
  \/ SubmitBlankForm
  \/ StartNewAssessment

SpecBlank == Init /\ [][NextBlank]_vars

----------------------------------------------------------------------------
(* SpecPriority: the classifier of the two pages applied to two averages    *)
(* of one domain with the same gap                                         *)

NoFrame == [columns |-> << >>, rows |-> << >>]

(* averages 1.0, 1.5 .. 5.0 and gaps -0.2, -0.1 .. 0.8 *)
Averages == {Rat(n, 2) : n \in (2 * MIN_RATING)..(2 * MAX_RATING)}
Gaps == {Rat(n, 10) : n \in (-2)..8}

InitPriority ==
  /\ args \in [avg1 : Averages, avg2 : Averages, gap : Gaps]
  /\ result = << >>
  /\ df = NoFrame
  /\ session_state = EmptyDict
  /\ model_cache = {}
  /\ shown = Blank
  /\ data_file = NoFrame
  /\ data_cache = << >>
  /\ calls = << >>
  /\ compute_lock = {}
  /\ fits = << >>
  /\ users_file = NoUsersFile

(* the inclusion test and the priority chain, for avg1 and then for avg2 *)
ClassifyDomain ==
  /\ Len(result) < 2
  /\ LET avg == IF result = << >> THEN args.avg1 ELSE args.avg2
     IN result' = Append(result, [included |-> Included(avg, args.gap),
                                  priority |-> Priority(avg, args.gap)])
  /\ UNCHANGED <<users_file, args, df, model_cache, pageVars, serverVars>>

NextPriority == ClassifyDomain

SpecPriority == InitPriority /\ [][NextPriority]_vars

----------------------------------------------------------------------------
(* SpecPredict: get_clustering_model(df) followed by                       *)
(* predict_cluster(new_data, kmeans, scaler, features), run after run       *)

Slack == 1
MaxRuns == 2

Absent == [t |-> "absent", v |-> 0]

(* what a competency key of new_data may hold *)
RatingInputs ==
  {PyInt(v) : v \in (MIN_RATING - Slack)..(MAX_RATING + Slack)}
    \cup {PyNumStr(MAX_RATING + Slack), PyText, PyNone, PyNaN, PyHuge}

Reverse(q) == List([i \in 1..Len(q) |-> q[Len(q) + 1 - i]])

(* the dict with the keys in the order `order`, without those chosen absent,
   after a Timestamp item if with_timestamp *)
MappingOf(order, choice, with_timestamp) ==
  LET kept == SelectSeq(order, LAMBDA k : choice[k] # Absent)
  IN (IF with_timestamp THEN <<<<TIMESTAMP_KEY, PyText>>>> ELSE << >>)
       \o [i \in 1..Len(kept) |-> <<kept[i], choice[kept[i]]>>]

InputMappings(cols) ==
  { MappingOf(order, choice, ts) :
      order \in {cols, Reverse(cols)},
      choice \in [Range(cols) -> RatingInputs \cup {Absent}],
      ts \in BOOLEAN }

InitPredict ==
  /\ df \in Range(FirstRows(MaxRows)) \cup Range(FirstRows(MaxRows + 1)) \cup EdgeFrames
  /\ args \in InputMappings(CompetencyCols(df))
  /\ result = << >>
  /\ session_state = EmptyDict
  /\ model_cache = {}
  /\ shown = Blank
  /\ data_file = df
  /\ data_cache = <<df>>
  /\ calls = << >>
  /\ compute_lock = {}
  /\ fits = << >>
  /\ users_file = NoUsersFile

(* what a run came back with: pred from predict_cluster, whether the run
   fitted the model itself, and the features get_clustering_model returned *)
Outcome(pred, fitted, features) ==
  [status |-> IF pred.raised THEN "predict_error" ELSE "ok", fitted |-> fitted,
   features |-> features, X_new |-> pred.X_new, cluster |-> pred.cluster,
   X_fit |-> IF fitted THEN ScalerInput(df) ELSE << >>]

(* get_clustering_model raised: predict_cluster is not called *)
NoPrediction == [raised |-> TRUE, X_new |-> << >>, cluster |-> << >>, art |-> << >>]

(* kmeans, scaler, features = get_clustering_model(df)
   cluster = predict_cluster(args, kmeans, scaler, features) *)
FitThenPredict ==
  /\ Len(result) < MaxRuns
  /\ \E seed \in RandomStateSeeds(CLUSTER_RANDOM_STATE) :
       \E gm \in {GetModel(model_cache, df, seed)} :
         \E pred \in {IF gm.raised THEN NoPrediction
                       ELSE PredictCluster(args, gm.value[1])} :
          /\ model_cache' = IF gm.raised THEN gm.cache
                            ELSE WithEntry(gm.cache, df, pred.art)
          /\ result' = Append(result,
               IF gm.raised
               THEN [status |-> "fit_error", fitted |-> TRUE, features |-> << >>,
                     X_new |-> << >>, cluster |-> << >>, X_fit |-> ScalerInput(df)]
               ELSE Outcome(pred, ~CacheHit(model_cache, df), gm.value[1].features))
  /\ UNCHANGED <<users_file, args, df, pageVars, serverVars>>

(* the server process is started again: st.cache_resource starts empty *)
Restart ==
  /\ Len(result) < MaxRuns
  /\ model_cache # {}
  /\ model_cache' = {}
  /\ UNCHANGED <<users_file, args, result, df, pageVars, serverVars>>

NextPredict ==
  \/ FitThenPredict
  \/ Restart

SpecPredict == InitPredict /\ [][NextPredict]_vars

----------------------------------------------------------------------------
(* SpecCache: several sessions run main() up to the call of                 *)
(* get_clustering_model while DATA_FILE is replaced on disk                 *)

MaxSessions == 2
MaxCalls == 2

Sessions == 1..MaxSessions

(* the contents DATA_FILE goes through: the first rows of the two
   spreadsheets, from too few rows for KMeans to MaxRows rows *)
FileVersions ==
  LET sizes == (NUM_CLUSTERS - 1)..MaxRows
      count == Cardinality(sizes)
  IN List([i \in 1..(2 * count) |->
             FirstRows(NUM_CLUSTERS - 1 + ((i - 1) \div 2))[1 + ((i - 1) % 2)]])

(* a spreadsheet saved without its 'Cluster' column *)
UnlabelledFile ==
  [columns |-> <<COL_2A, COL_NAME, COL_1A>>,
   rows |-> << <<2, 0, 3>>, <<1, 0, 2>>, <<1, 0, 3>> >>]

(* utils.py lines 117-119: missing_cols is not empty *)
MissingRequiredCols(file) == CLUSTER_COL \notin Range(file.columns)

(* the body of load_data on the content of DATA_FILE: None, written NoFrame,
   for an empty sheet (line 112) and for a sheet without 'Cluster' (line
   120), else the DataFrame *)
LoadData(file) ==
  IF file.rows = << >> \/ file.columns = << >> \/ MissingRequiredCols(file)
  THEN NoFrame
  ELSE file

(* a session between script runs, after n of them *)
Idle(n) == [pc |-> "idle", df |-> << >>, file |-> << >>, runs |-> n, value |-> << >>]

InitCache ==
  /\ data_file \in Range(FileVersions)
  /\ data_cache = << >>
  /\ calls = [s \in Sessions |-> Idle(0)]
  /\ compute_lock = {}
  /\ fits = EmptyBag
  /\ users_file = NoUsersFile
  /\ model_cache = {}
  /\ result = << >>
  /\ args = << >>
  /\ df = NoFrame
  /\ session_state = EmptyDict
  /\ shown = Blank

(* the call of get_clustering_model is over *)
Finished(s) == calls[s].pc \in {"returned", "raised"}

(* app.py lines 342-344: df is None, st.error and st.stop(); the exception
   st.stop() raises is not an Exception, so the handlers of lines 345 and
   430 let it end the script run before the navigation and the routing *)
Halted(s) == calls[s].pc = "halted"

(* app.py lines 339-348, df = load_data(): @st.cache_data without arguments
   keeps what the first call returned, a DataFrame or None, for the life of
   the process *)
BeginRun(s) ==
  /\ calls[s].pc = "idle" \/ Finished(s) \/ Halted(s)
  /\ calls[s].runs < MaxCalls
  /\ data_cache' = IF data_cache = << >> THEN <<LoadData(data_file)>> ELSE data_cache
  /\ calls' = [calls EXCEPT ![s] = [pc |-> IF data_cache'[1] = NoFrame THEN "halted"
                                           ELSE "lookup",
                                    df |-> data_cache'[1],
                                    file |-> data_file, runs |-> @.runs + 1,
                                    value |-> << >>]]
  /\ UNCHANGED <<users_file, data_file, compute_lock, fits, model_cache, result, args, df, pageVars>>

(* get_clustering_model(df): the lookup made without the lock *)
Lookup(s) ==
  /\ calls[s].pc = "lookup"
  /\ calls' = IF CacheHit(model_cache, calls[s].df)
              THEN [calls EXCEPT ![s].pc = "returned",
                                 ![s].value = <<CacheValue(model_cache, calls[s].df)>>]
              ELSE [calls EXCEPT ![s].pc = "wait"]
  /\ UNCHANGED <<users_file, data_file, data_cache, compute_lock, fits, model_cache, result, args, df,
                 pageVars>>

(* the miss path takes the compute lock of the key and looks again *)
Acquire(s) ==
  /\ calls[s].pc = "wait"
  /\ LockFree(compute_lock, calls[s].df)
  /\ IF CacheHit(model_cache, calls[s].df)
     THEN /\ calls' = [calls EXCEPT ![s].pc = "returned",
                                    ![s].value = <<CacheValue(model_cache, calls[s].df)>>]
          /\ UNCHANGED compute_lock
     ELSE /\ calls' = [calls EXCEPT ![s].pc = "compute"]
          /\ compute_lock' = compute_lock \cup {calls[s].df}
  /\ UNCHANGED <<users_file, data_file, data_cache, fits, model_cache, result, args, df, pageVars>>

(* the body of get_clustering_model runs under the lock; its result is
   stored, its exception is not *)
RunBody(s) ==
  /\ calls[s].pc = "compute"
  /\ fits' = fits (+) SetToBag({calls[s].df})
  /\ compute_lock' = compute_lock \ {calls[s].df}
  /\ \E seed \in RandomStateSeeds(CLUSTER_RANDOM_STATE) :
       \E gm \in {GetModel(model_cache, calls[s].df, seed)} :
          /\ model_cache' = gm.cache
          /\ calls' = [calls EXCEPT ![s].pc = IF gm.raised THEN "raised" ELSE "returned",
                                    ![s].value = gm.value]
  /\ UNCHANGED <<users_file, data_file, data_cache, result, args, df, pageVars>>

(* DATA_FILE is replaced by its next version *)
ChangeFile ==
  /\ \E i \in 1..(Len(FileVersions) - 1) :
       /\ data_file = FileVersions[i]
       /\ data_file' = FileVersions[i + 1]
  /\ UNCHANGED <<users_file, data_cache, calls, compute_lock, fits, model_cache, result, args, df,
                 pageVars>>

NextCache ==
  \/ \E s \in Sessions : BeginRun(s)
  \/ \E s \in Sessions : Lookup(s)
  \/ \E s \in Sessions : Acquire(s)
  \/ \E s \in Sessions : RunBody(s)
  \/ ChangeFile

SpecCache == InitCache /\ [][NextCache]_vars

(* SpecLoad: the same sessions, with a DATA_FILE that may also be replaced
   by a spreadsheet without its 'Cluster' column *)
DropLabelColumn ==
  /\ data_file # UnlabelledFile
  /\ data_file' = UnlabelledFile
  /\ UNCHANGED <<users_file, data_cache, calls, compute_lock, fits, model_cache, result, args, df,
                 pageVars>>

NextLoad ==
  \/ \E s \in Sessions : BeginRun(s)
  \/ \E s \in Sessions : Lookup(s)
  \/ \E s \in Sessions : Acquire(s)
  \/ \E s \in Sessions : RunBody(s)
  \/ ChangeFile
  \/ DropLabelColumn

SpecLoad == InitCache /\ [][NextLoad]_vars

----------------------------------------------------------------------------
(* SpecAuth: signup and login called one after the other on USERS_FILE      *)

MaxFailed == 5

NAME_BOB == <<"b", "o", "b">>
NAME_BOB_CAPITAL == <<"B", "o", "b">>

(* what is typed into a username field *)
TypedUsernames ==
  { NAME_BOB, NAME_BOB_CAPITAL,
    <<"<", "i", ">", "b", "o", "b", " ">>,
    <<"a", "b">>,
    <<"R", "o", "o", "t">>,
    <<"A", "d", "m", "i", "n", "i", "s", "t", "r", "a", "t", "o", "r">> }

(* what is typed into a password field: the password every account of the
   model has, and one without a digit *)
TypedPasswords ==
  { DEFAULT_ADMIN_PASSWORD, <<"s", "e", "c", "r", "e", "t", "s", "s">> }

(* the values secrets.token_hex(16) draws *)
Salts == {"5f", "c3"}

(* a file written before the hashes were salted *)
LegacyFile ==
  JsonFile(<<<<DEFAULT_ADMIN_USERNAME,
               [DefaultAdminRecord("5f") EXCEPT
                  !.password = LegacyHash(DEFAULT_ADMIN_PASSWORD)]>>>>)

InitAuth ==
  /\ users_file \in {NoUsersFile, LegacyFile}
  /\ args = << >>
  /\ result = << >>
  /\ df = NoFrame
  /\ session_state = EmptyDict
  /\ model_cache = {}
  /\ shown = Blank
  /\ data_file = NoFrame
  /\ data_cache = << >>
  /\ calls = << >>
  /\ compute_lock = {}
  /\ fits = << >>

(* the failed attempts of the account a login with this name would look at,
   0 when there is none *)
AttemptsOf(file, raw_username) ==
  LET users == ReadUsers(file, "5f")
      matching == MatchingUsername(users, CleanUsername(raw_username))
  IN IF matching = << >> THEN 0 ELSE DictGet(users, matching[1]).failed_attempts

(* the salts a call of load_users can draw that make a difference: all of
   them when it hashes the default password into the dict it returns (file
   absent or unreadable, admin account missing or unsalted), else one *)
SaltsOfLoad(file) ==
  IF \A salt \in Salts : load_users(file, salt).users = ReadUsers(file, salt)
                          /\ file.state = "json"
  THEN {CHOOSE salt \in Salts : TRUE}
  ELSE Salts

(* success, message = signup(username, password) *)
CallSignup ==
  \E username \in TypedUsernames, password \in TypedPasswords :
   \E salt \in IF SignupRejection(CleanUsername(username), Strip(password)) = ""
                THEN Salts ELSE SaltsOfLoad(users_file) :
    \E out \in {signup(users_file, username, password, salt)} :
      /\ result' = <<[op |-> "signup", ok |-> out.ok, message |-> out.message,
                      role |-> NoRole, account |-> <<out.username>>]>>
      /\ users_file' = out.file
      /\ UNCHANGED <<args, df, model_cache, pageVars, data_file, data_cache, calls,
                     compute_lock, fits>>

(* success, message, role = login(username, password) *)
CallLogin ==
  \E username \in TypedUsernames, password \in TypedPasswords,
     salt \in SaltsOfLoad(users_file) :
    \E out \in {login(users_file, username, password, salt)} :
      /\ out.ok \/ AttemptsOf(users_file, username) < MaxFailed
      /\ result' = <<[op |-> "login", ok |-> out.ok, message |-> out.message,
                      role |-> out.role, account |-> out.account]>>
      /\ users_file' = out.file
      /\ UNCHANGED <<args, df, model_cache, pageVars, data_file, data_cache, calls,
                     compute_lock, fits>>

NextAuth ==
  \/ CallSignup
  \/ CallLogin

SpecAuth == InitAuth /\ [][NextAuth]_vars

----------------------------------------------------------------------------
(* SpecUsers: the sessions of the server, each in its own thread, call      *)
(* signup and login on the one USERS_FILE; a call reads the file in         *)
(* load_users and writes it in save_users, which opens it for writing       *)
(* (and so empties it) and then dumps the dict                              *)

NAME_AMY == <<"a", "m", "y">>
NAME_EVE == <<"e", "v", "e">>

(* the store the sessions start from: the default administrator and the
   teacher 'bob', both with the password admin123 *)
StartingUsers ==
  << <<DEFAULT_ADMIN_USERNAME, DefaultAdminRecord("5f")>>,
     <<NAME_BOB, NewAccount(DEFAULT_ADMIN_PASSWORD, "c3")>> >>

(* a session that is in no call *)
NoAuthCall ==
  [pc |-> "idle", op |-> "none", username |-> << >>, users |-> << >>, ok |-> FALSE,
   message |-> "", read_failed |-> FALSE, backup_data |-> NoUsersFile]

InitUsers ==
  /\ users_file = JsonFile(StartingUsers)
  /\ calls = [s \in Sessions |-> NoAuthCall]
  /\ args = << >>
  /\ result = << >>
  /\ df = NoFrame
  /\ session_state = EmptyDict
  /\ model_cache = {}
  /\ shown = Blank
  /\ data_file = NoFrame
  /\ data_cache = << >>
  /\ compute_lock = {}
  /\ fits = << >>

(* a call that returned without writing the file *)
Returned(op, username, ok, message, read_failed) ==
  [NoAuthCall EXCEPT !.pc = "done", !.op = op, !.username = username, !.ok = ok,
                     !.message = message, !.read_failed = read_failed]

(* a call that is about to enter save_users(users) and return (ok, message)
   after it *)
Saving(op, username, ok, message, read_failed, users) ==
  [Returned(op, username, ok, message, read_failed) EXCEPT !.pc = "save", !.users = users]

(* signup lines 110-138: validation, load_users(), the test of line 127 and
   the new record in the dict of this call *)
BeginSignup(s) ==
  /\ calls[s].pc = "idle"
  /\ \E raw_username \in {NAME_AMY, NAME_EVE, NAME_BOB_CAPITAL},
        password \in TypedPasswords, salt \in Salts :
       \E username \in {CleanUsername(raw_username)}, loaded \in {load_users(users_file, salt)} :
         IF SignupRejection(username, Strip(password)) # ""
         THEN /\ calls' = [calls EXCEPT ![s] =
                             Returned("signup", username, FALSE,
                                      SignupRejection(username, Strip(password)), FALSE)]
              /\ UNCHANGED users_file
         ELSE /\ users_file' = loaded.file
              /\ calls' = [calls EXCEPT ![s] =
                    IF UsernameTaken(loaded.users, username)
                    THEN Returned("signup", username, FALSE, "Username already exists",
                                  ReadFailed(users_file))
                    ELSE Saving("signup", username, TRUE,
                                "Teacher account created successfully!",
                                ReadFailed(users_file),
                                DictSet(loaded.users, username,
                                        NewAccount(Strip(password), salt)))]
  /\ UNCHANGED <<args, result, df, model_cache, pageVars, data_file, data_cache,
                 compute_lock, fits>>

(* login lines 162-198 up to the call of save_users: load_users(), the
   lookup, verify_password and the change of the record in the dict of this
   call *)
BeginLogin(s) ==
  /\ calls[s].pc = "idle"
  /\ \E raw_username \in {NAME_BOB}, password \in TypedPasswords, salt \in Salts :
       \E username \in {CleanUsername(raw_username)}, loaded \in {load_users(users_file, salt)} :
         \E matching \in {MatchingUsername(loaded.users, username)} :
           /\ users_file' = loaded.file
           /\ calls' = [calls EXCEPT ![s] =
                IF matching = << >>
                THEN Returned("login", username, FALSE, "Invalid username or password",
                              ReadFailed(users_file))
                ELSE IF PasswordAccepted(Strip(password), DictGet(loaded.users, matching[1]))
                THEN Saving("login", matching[1], TRUE, "Login successful!",
                            ReadFailed(users_file),
                            DictSet(loaded.users, matching[1],
                                    SuccessfulLogin(DictGet(loaded.users, matching[1]))))
                ELSE Saving("login", matching[1], FALSE,
                            "Invalid username or password (n/5 attempts)",
                            ReadFailed(users_file),
                            DictSet(loaded.users, matching[1],
                                    FailedLogin(DictGet(loaded.users, matching[1]))))]
  /\ UNCHANGED <<args, result, df, model_cache, pageVars, data_file, data_cache,
                 compute_lock, fits>>

(* save_users lines 81-90: the file is read for the backup copy and opened
   with mode 'w', which leaves it empty until something is written *)
OpenForWriting(s) ==
  /\ calls[s].pc = "save"
  /\ calls' = [calls EXCEPT ![s].pc = "dump", ![s].backup_data = users_file]
  /\ users_file' = TruncatedFile
  /\ UNCHANGED <<args, result, df, model_cache, pageVars, data_file, data_cache,
                 compute_lock, fits>>

(* save_users lines 91-92: json.dump writes the dict of this call; the call
   of signup or login returns *)
DumpUsers(s) ==
  /\ calls[s].pc = "dump"
  /\ calls' = [calls EXCEPT ![s].pc = "done"]
  /\ users_file' = JsonFile(calls[s].users)
  /\ UNCHANGED <<args, result, df, model_cache, pageVars, data_file, data_cache,
                 compute_lock, fits>>

NextUsers ==
  \/ \E s \in Sessions : BeginSignup(s)
  \/ \E s \in Sessions : BeginLogin(s)
  \/ \E s \in Sessions : OpenForWriting(s)
  \/ \E s \in Sessions : DumpUsers(s)

SpecUsers == InitUsers /\ [][NextUsers]_vars

----------------------------------------------------------------------------
(* app.py: main(), one script run of a browser session                      *)

NoUsername == << >>

(* lines 35-42 *)
WithAuthKeys(ss) ==
  LET a == IF HasKey(ss, "logged_in") THEN ss ELSE Put(ss, "logged_in", FALSE)
      b == IF HasKey(a, "username") THEN a ELSE Put(a, "username", NoUsername)
  IN IF HasKey(b, "user_role") THEN b ELSE Put(b, "user_role", NoRole)

(* lines 56-58 and 334-336 *)
LoggedOut(ss) ==
  Put(Put(Put(ss, "logged_in", FALSE), "username", NoUsername), "user_role", NoRole)

(* auth.py lines 307-309 *)
LoggedIn(ss, username, role) ==
  Put(Put(Put(ss, "logged_in", TRUE), "username", username), "user_role", role)

(* a main that lets every role through *)
ValidRole_any(user_role) == TRUE

(* line 53 *)
ValidRole(user_role) == user_role \in {ROLE_ADMIN, ROLE_TEACHER}

(* show_auth_page() without a form submitted *)
AuthPage == [Blank EXCEPT !.page = "auth", !.status = "form"]

(* lines 350-351 *)
WithCurrentPage(ss) ==
  IF HasKey(ss, "current_page") THEN ss ELSE Put(ss, "current_page", "Dashboard")

(* lines 357-390: the pages the navigation buttons of a role lead to *)
NavPages(user_role) ==
  IF user_role = ROLE_ADMIN
  THEN {"Dashboard", "Cluster Profiles", "Training Recommendations", "Self Assessment",
        "Admin Tools"}
  ELSE {"Dashboard", "Cluster Profiles", "Self Assessment"}

(* lines 395-398 *)
GatedPage(user_role, page) ==
  IF user_role = ROLE_TEACHER /\ page \in {"Training Recommendations", "Admin Tools"}
  THEN "Dashboard"
  ELSE page

(* what a script run leaves: the session state, the page, the model cache *)
Rendered(ss, page, cache) ==
  /\ session_state' = ss
  /\ shown' = page
  /\ model_cache' = cache

(* a page of which the model keeps the name only *)
Plain(page) == [Blank EXCEPT !.page = page, !.status = "ok"]

(* cluster_profiles.py lines 9-10 *)
WithSelectedProfile(ss) ==
  IF HasKey(ss, "selected_cluster") THEN ss
  ELSE Put(ss, "selected_cluster", MinLabel(df))

(* lines 402-428: the routing; is_admin is user_role == ROLE_ADMIN of lines
   409 and 416.  An exception of a page is caught at line 425 and shown; the
   only page whose exceptions are modelled is Self Assessment. *)
RoutePage(ss, page, is_admin) ==
  CASE page = "Dashboard" -> Rendered(ss, Plain("Dashboard"), model_cache)
    [] page = "Cluster Profiles" ->
         Rendered(WithSelectedProfile(ss), Plain("Cluster Profiles"), model_cache)
    [] page = "Training Recommendations" ->
         IF is_admin
         THEN Rendered(WithSelectedCluster(ss),
                       RenderRecommendations(WithSelectedCluster(ss)), model_cache)
         ELSE Rendered(ss, [Blank EXCEPT !.page = "Access Denied"], model_cache)
    [] page = "Self Assessment" ->
         \E seed \in RandomStateSeeds(CLUSTER_RANDOM_STATE), pg \in {AssessmentPage(df)} :
           \E ss1 \in {IF pg.competency_cols = << >> THEN ss
                       ELSE WithAssessmentKeys(ss)} :
             \E gm \in {IF pg.competency_cols # << >> /\ ResultsVisible(ss1)
                        THEN GetModel(model_cache, df, seed) ELSE NoCall} :
               Rendered(ss1, RenderSelfAssessment(ss1, gm, pg),
                        CacheAfterPage(ss1, gm, pg))
    [] page = "Admin Tools" ->
         IF is_admin
         THEN Rendered(ss, Plain("Admin Tools"), model_cache)
         ELSE Rendered(ss, [Blank EXCEPT !.page = "Access Denied"], model_cache)
    [] OTHER -> Rendered(Put(ss, "current_page", "Dashboard"), Plain("Dashboard"),
                         model_cache)

(* lines 392-424 without the test of line 395 and with the pages of the
   administrator open to every role *)
RenderPage_ungated(ss) == RoutePage(ss, ss["current_page"], TRUE)

(* lines 392-424 *)
RenderPage(ss) ==
  RoutePage(Put(ss, "current_page", GatedPage(ss["user_role"], ss["current_page"])),
            GatedPage(ss["user_role"], ss["current_page"]),
            ss["user_role"] = ROLE_ADMIN)

(* logger.warning of lines 54 and 396: the warnings a run of main() on
   session state ss writes *)
MainWarnings(ss) ==
  LET auth == WithCurrentPage(WithAuthKeys(ss))
  IN IF ~auth["logged_in"] THEN {}
     ELSE IF ~ValidRole(auth["user_role"]) THEN {"Invalid user role detected"}
     ELSE IF df = NoFrame THEN {}
     ELSE IF GatedPage(auth["user_role"], auth["current_page"]) # auth["current_page"]
     THEN {"Teacher user attempted to access restricted page"}
     ELSE {}

(* main() on the session state an event left; st.rerun() of line 59 starts
   main() again, which then shows the login page; df is None ends the run
   after the header (lines 342-344).  In the specification of main(), result
   is the set of warnings in the log. *)
RunMain(ss) ==
  /\ result' = result \cup MainWarnings(ss)
  /\ \E auth \in {WithAuthKeys(ss)} :
       IF ~auth["logged_in"] THEN Rendered(auth, AuthPage, model_cache)
       ELSE IF ~ValidRole(auth["user_role"])
       THEN Rendered(LoggedOut(auth), AuthPage, model_cache)
       ELSE IF df = NoFrame
       THEN Rendered(auth, [Blank EXCEPT !.page = "Header", !.status = "load_error"],
                     model_cache)
       ELSE RenderPage(WithCurrentPage(auth))

----------------------------------------------------------------------------
(* SpecSession: one browser session in which users log in and out, move     *)
(* between the pages and use the self-assessment form                       *)

MaxWrong == 1

(* a store in which 'eve' was given a role by hand that main() does not
   know (no code of src writes a role other than teacher and admin) *)
SessionUsers ==
  Append(StartingUsers,
         <<NAME_EVE, [NewAccount(DEFAULT_ADMIN_PASSWORD, "c3") EXCEPT !.role = "principal"]>>)

(* the first rows of the first spreadsheet: enough for KMeans, and one too
   few *)
SessionFrames == {FirstRows(NUM_CLUSTERS)[1], FirstRows(NUM_CLUSTERS - 1)[1]}

(* the ratings the form is submitted with *)
SessionRatings == {MIN_RATING, MAX_RATING}

(* args of this specification is no state of the program: it keeps the
   username of the session that submitted the ratings in assessment_data *)
InitSession ==
  /\ df \in SessionFrames
  /\ users_file = JsonFile(SessionUsers)
  /\ session_state = EmptyDict
  /\ model_cache = {}
  /\ shown = Blank
  /\ args = << >>
  /\ result = {}
  /\ data_file = df
  /\ data_cache = <<df>>
  /\ calls = << >>
  /\ compute_lock = {}
  /\ fits = << >>

(* the failed attempts of all accounts together *)
TotalFailed(file) ==
  SumSeq(List([i \in 1..Len(file.users) |-> file.users[i][2].failed_attempts]))

(* the browser opens the application *)
OpenApp ==
  /\ shown.page = "none"
  /\ RunMain(session_state)
  /\ UNCHANGED <<users_file, df, args, serverVars>>

(* auth.py lines 303-315: the login form is submitted with both fields
   filled; on success st.rerun() runs main() as the user *)
LoginForm ==
  /\ shown.page = "auth"
  /\ \E username \in {DEFAULT_ADMIN_USERNAME, NAME_BOB, NAME_EVE},
        password \in TypedPasswords, salt \in SaltsOfLoad(users_file) :
       \E out \in {login(users_file, username, password, salt)} :
         /\ out.ok \/ TotalFailed(users_file) < MaxWrong
         /\ users_file' = out.file
         /\ IF out.ok
            THEN RunMain(LoggedIn(session_state, username, out.role))
            ELSE /\ Rendered(session_state, [AuthPage EXCEPT !.status = "login_error"],
                             model_cache)
                 /\ UNCHANGED result
  /\ UNCHANGED <<df, args, serverVars>>

(* lines 332-337: the Logout button *)
Logout ==
  /\ shown.page \notin {"none", "auth"}
  /\ RunMain(LoggedOut(session_state))
  /\ UNCHANGED <<users_file, df, args, serverVars>>

(* lines 369-374 and 385-390: a navigation button *)
Navigate(page_name) ==
  /\ shown.page \notin {"none", "auth", "Header"}
  /\ page_name \in NavPages(session_state["user_role"])
  /\ RunMain(Put(session_state, "current_page", page_name))
  /\ UNCHANGED <<users_file, df, args, serverVars>>

(* self_assessment.py lines 102-113 in the session of a user *)
SubmitAsUser ==
  /\ shown.page = "Self Assessment"
  /\ shown.status # "no_competency_columns"
  /\ \E pg \in {AssessmentPage(df)} :
       \E ratings \in [Range(pg.competency_cols) -> SessionRatings] :
         RunMain(Put(Put(session_state, "assessment_data", AssessmentData(pg, ratings)),
                     "assessment_submitted", TRUE))
  /\ args' = <<session_state["username"]>>
  /\ UNCHANGED <<users_file, df, serverVars>>

NextSession ==
  \/ OpenApp
  \/ LoginForm
  \/ Logout
  \/ \E page_name \in NavPages(ROLE_ADMIN) : Navigate(page_name)
  \/ \E c \in 0..(NUM_CLUSTERS - 1) : SelectCluster(c)
  \/ SubmitAsUser
  \/ StartNewAssessment

SpecSession == InitSession /\ [][NextSession]_vars

----------------------------------------------------------------------------
(* Claims about the two recommendation lists                               *)

(* the domains of the page that is shown, in the order its loop visits them,
   each with the average and the gap the loop computes for it *)
ShownDomains ==
  LET doms == DomainsByInt(DomainMapping(df))
  IN List([i \in 1..Len(doms) |->
       LET avg == IF shown.page = "Training Recommendations"
                  THEN MeanOfColMeans(df, ClusterRows(df, shown.cluster[1]), doms[i].cols)
                  ELSE NpMean(List([k \in 1..Len(doms[i].cols) |->
                         DictGet(session_state["assessment_data"], doms[i].cols[k]).v]))
       IN [domain |-> doms[i].domain, avg |-> avg,
           gap |-> RatSub(avg, MeanOfColMeans(df, RowIds(df), doms[i].cols))]])

Listed(dom) == \E k \in 1..Len(shown.recs) : shown.recs[k].domain = dom

PriorityLevels == {"URGENT", "HIGH", "MEDIUM", "LOW"}

(* C1: on both pages a domain is in the displayed recommendation list if and
   only if its gap is above 0.3 or its average is at least 3.5 *)
C1_InclusionRule ==
  shown.status = "ok" =>
    \A i \in 1..Len(ShownDomains) :
       Listed(ShownDomains[i].domain)
         <=> (RatGT(ShownDomains[i].gap, Rat(3, 10)) \/ RatGE(ShownDomains[i].avg, Rat(35, 10)))

(* a self-assessment result that lists one domain and leaves the other out *)
C1_Witness ==
  /\ shown.status = "ok"
  /\ shown.page = "Self Assessment"
  /\ Len(ShownDomains) = 2
  /\ Len(shown.recs) = 1

(* C2: on both pages every listed domain is URGENT from an average of 4.5,
   else HIGH from 4.0, else MEDIUM from 3.5 or with a gap above 0.5, else
   LOW, and carries exactly one of these four levels *)
C2_PriorityChain ==
  shown.status = "ok" =>
    \A k \in 1..Len(shown.recs) :
       LET r == shown.recs[k]
           i == CHOOSE i \in 1..Len(ShownDomains) : ShownDomains[i].domain = r.domain
           avg == ShownDomains[i].avg
           gap == ShownDomains[i].gap
       IN /\ r.priority \in PriorityLevels
          /\ r.priority = "URGENT" <=> RatGE(avg, Rat(45, 10))
          /\ r.priority = "HIGH" <=> (~RatGE(avg, Rat(45, 10)) /\ RatGE(avg, Rat(4, 1)))
          /\ r.priority = "MEDIUM" <=>
                (~RatGE(avg, Rat(4, 1)) /\ (RatGE(avg, Rat(35, 10)) \/ RatGT(gap, Rat(5, 10))))
          /\ r.priority = "LOW" <=>
                (~RatGE(avg, Rat(35, 10)) /\ ~RatGT(gap, Rat(5, 10)))

(* a per-cluster list with a domain that is MEDIUM through its gap alone *)
C2_Witness ==
  /\ shown.status = "ok"
  /\ shown.page = "Training Recommendations"
  /\ \E k \in 1..Len(shown.recs) :
        /\ shown.recs[k].priority = "MEDIUM"
        /\ ~RatGE(shown.recs[k].avg, Rat(35, 10))

(* C3: every displayed list, per cluster or of a respondent, is in
   descending order of (priority weight, average): no entry follows one of
   lower priority, and averages do not increase within a priority *)
C3_SortedByPriorityThenAvg ==
  shown.status = "ok" =>
    \A k \in 1..(Len(shown.recs) - 1) :
       LET x == shown.recs[k]
           y == shown.recs[k + 1]
       IN \/ priority_order(x.priority) > priority_order(y.priority)
          \/ /\ priority_order(x.priority) = priority_order(y.priority)
             /\ RatGE(x.avg, y.avg)

(* the entry of ShownDomains for the domain dom *)
ShownDomain(dom) ==
  ShownDomains[CHOOSE i \in 1..Len(ShownDomains) : ShownDomains[i].domain = dom]

(* a - b = c for three floats, none of them NaN *)
IsDifference(a, b, c) ==
  /\ a.d > 0 /\ b.d > 0 /\ c.d > 0
  /\ (a.n * b.d - b.n * a.d) * c.d = c.n * a.d * b.d

(* C15: the gap of every listed domain is the cohort average (the rows of
   the selected cluster, or the respondent's own ratings) minus the average
   of the same domain over all rows, so that it is positive exactly when the
   cohort's average is the higher one *)
C15_GapIsCohortMinusOverall ==
  shown.status = "ok" =>
    \A k \in 1..Len(shown.recs) :
       /\ IsDifference(ShownDomain(shown.recs[k].domain).avg,
                       MeanOfColMeans(df, RowIds(df),
                          DomainMapping(df)[CHOOSE i \in 1..Len(DomainMapping(df)) :
                              DomainMapping(df)[i].domain = shown.recs[k].domain].cols),
                       shown.recs[k].gap)
       /\ RatGT(shown.recs[k].gap, Rat(0, 1))
             <=> RatGT(ShownDomain(shown.recs[k].domain).avg,
                       RatSub(ShownDomain(shown.recs[k].domain).avg,
                              ShownDomain(shown.recs[k].domain).gap))

(* a respondent's list with a domain that is listed through its average
   although the respondent rated it below the average of all rows *)
C15_Witness ==
  /\ shown.page = "Self Assessment"
  /\ shown.status = "ok"
  /\ \E k \in 1..Len(shown.recs) :
        /\ RatGT(Rat(0, 1), shown.recs[k].gap)
        /\ RatGE(shown.recs[k].avg, Rat(35, 10))

(* the columns of the domain dom in df *)
DomainCols(dom) ==
  DomainMapping(df)[CHOOSE i \in 1..Len(DomainMapping(df)) :
                      DomainMapping(df)[i].domain = dom].cols

(* the present cells of the columns cols in the rows rs, column by column *)
PresentCells(rs, cols) ==
  Flatten(List([j \in 1..Len(cols) |->
     Present(List([i \in 1..Len(SetToSeq(rs)) |-> Cell(df, SetToSeq(rs)[i], cols[j])]))]))

(* C16: the cohort average of a listed domain is the sum of all present
   rating cells of the domain's columns in the cohort's rows divided by the
   number of those cells *)
C16_CohortAverageIsPooledMean ==
  (shown.page = "Training Recommendations" /\ shown.status = "ok") =>
     \A k \in 1..Len(shown.recs) :
        RatEQ(shown.recs[k].avg,
              NpMean(PresentCells(ClusterRows(df, shown.cluster[1]),
                                  DomainCols(shown.recs[k].domain))))

(* a column name of the form <domain_id>.<description>: digits, a dot, text *)
IsDomainColumn(col) ==
  /\ SplitDot0(col) # << >>
  /\ Len(SplitDot0(col)) < Len(col)
  /\ \A i \in 1..Len(SplitDot0(col)) : Ord(col[i]) \in 48..57

(* C17: every column <domain_id>.<description> of the data set is in the
   domain grouping of the pages and gets its radio button on the form, and
   every listed domain is named from the lookup if its id is known and
   'Domain <id>' otherwise *)
C17_EveryDomainColumnGrouped ==
  shown.status \in {"ok", "form"} =>
    /\ \A col \in Range(df.columns) :
          IsDomainColumn(col) =>
            /\ \E i \in 1..Len(DomainMapping(df)) : col \in Range(DomainMapping(df)[i].cols)
            /\ (shown.page = "Self Assessment" /\ shown.status = "ok")
                  => DictHas(session_state["assessment_data"], col)
    /\ \A k \in 1..Len(shown.recs) :
          shown.recs[k].name = IF shown.recs[k].domain \in DOMAIN_NAMES
                               THEN <<"name", shown.recs[k].domain>>
                               ELSE <<"Domain ", shown.recs[k].domain>>

(* the rows of df whose competency ratings are the submitted ones *)
RowsRatedAsSubmitted ==
  { r \in RowIds(df) :
      \A col \in Range(CompetencyCols(df)) :
         Cell(df, r, col) = DictGet(session_state["assessment_data"], col).v }

(* C13: the cluster id shown for a self-assessment whose ratings are those
   of a row of the data set is the 'Cluster' label of that row *)
C13_RowGetsItsClusterLabel ==
  (shown.page = "Self Assessment" /\ shown.status = "ok") =>
     \A r \in RowsRatedAsSubmitted : shown.cluster = <<Cell(df, r, CLUSTER_COL)>>

(* C14: an assessment submitted from the form as rendered holds the rating
   3 for every competency, and each of its domain averages is 3.0 *)
C14_BlankFormSubmitsMidpoint ==
  (shown.page = "Self Assessment" /\ shown.status = "ok") =>
     /\ \A col \in Range(CompetencyCols(df)) :
           DictGet(session_state["assessment_data"], col) = PyInt(3)
     /\ \A i \in 1..Len(ShownDomains) : RatEQ(ShownDomains[i].avg, Rat(3, 1))

----------------------------------------------------------------------------
(* Claims about the classifier as a function                               *)

Level(p) == CASE p = "LOW" -> 1 [] p = "MEDIUM" -> 2 [] p = "HIGH" -> 3 [] p = "URGENT" -> 4

(* C4: for a gap that keeps the domain included, the priority assigned to
   the higher of two averages is not below the one assigned to the lower *)
C4_PriorityMonotonic ==
  (/\ Len(result) = 2
   /\ RatGE(args.avg2, args.avg1)
   /\ result[1].included
   /\ result[2].included)
    => Level(result[1].priority) <= Level(result[2].priority)

(* the same gap takes a domain from LOW to URGENT as its average rises *)
C4_Witness ==
  /\ Len(result) = 2
  /\ RatGT(args.avg2, args.avg1)
  /\ result[1].included /\ result[1].priority = "LOW"
  /\ result[2].included /\ result[2].priority = "URGENT"

----------------------------------------------------------------------------
(* Claims about predict_cluster                                            *)

(* the value new_data gives the competency key k, Absent when it has none *)
Supplied(k) == IF DictHas(args, k) THEN DictGet(args, k) ELSE Absent

Unparseable(v) == v.t \in {"absent", "text", "none"}

(* C5: whatever number new_data holds for a competency key, every value of
   the vector handed to the scaler lies between 1 and 5 *)
C5_VectorWithinRange ==
  \A i \in 1..Len(result) :
     \A j \in 1..Len(result[i].X_new) :
        1 <= result[i].X_new[j][2] /\ result[i].X_new[j][2] <= 5

(* a prediction made from a rating below 1 and a rating above 5 *)
C5_Witness ==
  /\ Len(result) >= 1
  /\ result[1].status = "ok"
  /\ \E k1, k2 \in Range(result[1].features) :
        /\ Supplied(k1).t = "int" /\ Supplied(k1).v < 1
        /\ Supplied(k2).t \in {"int", "numstr"} /\ Supplied(k2).v > 5

(* C6: a competency key that new_data lacks, or whose value is no number,
   counts as exactly 3 in the vector, and a mapping made of such keys and of
   numbers a float can hold gets its prediction *)
C6_MissingBecomesMidpoint ==
  \A i \in 1..Len(result) :
     result[i].status # "fit_error" =>
       /\ \A j \in 1..Len(result[i].X_new) :
             Unparseable(Supplied(result[i].X_new[j][1])) => result[i].X_new[j][2] = 3
       /\ (\A k \in Range(result[i].features) : Supplied(k).t # "huge")
             => /\ result[i].status = "ok"
                /\ Len(result[i].cluster) = 1
                /\ Len(result[i].X_new) = Len(result[i].features)

(* a prediction made although one key is missing and another holds text *)
C6_Witness ==
  /\ Len(result) >= 1
  /\ result[1].status = "ok"
  /\ \E k1, k2 \in Range(result[1].features) :
        /\ Supplied(k1).t = "absent"
        /\ Supplied(k2).t \in {"text", "none"}
        /\ \A j \in 1..Len(result[1].X_new) : result[1].X_new[j][2] = 3

(* C9: with the seed CLUSTER_RANDOM_STATE, runs of get_clustering_model and
   predict_cluster on the same data set and mapping end the same way, with
   the same cluster id *)
C9_FitPredictDeterministic ==
  \A i, j \in 1..Len(result) :
     /\ result[i].status = result[j].status
     /\ result[i].cluster = result[j].cluster

(* two runs that each fitted the model, in two server processes *)
C9_Witness ==
  /\ Len(result) = 2
  /\ result[1].fitted /\ result[2].fitted
  /\ result[1].status = "ok" /\ result[2].status = "ok"
  /\ Len(result[2].cluster) = 1

(* C10: the vector handed to scaler.transform has exactly the features that
   get_clustering_model returned, which are the competency columns of df in
   column order, in that order, whatever the order and extra keys of
   new_data *)
C10_FeatureOrderKept ==
  \A i \in 1..Len(result) :
     result[i].status # "fit_error" =>
       /\ result[i].features = CompetencyCols(df)
       /\ result[i].X_new # << >> => DictKeys(result[i].X_new) = result[i].features

(* a prediction from a mapping that starts with Timestamp and has two
   competency keys in the opposite order of the features *)
C10_Witness ==
  /\ Len(result) >= 1
  /\ result[1].status = "ok"
  /\ Len(result[1].features) = 2
  /\ Len(args) = 3
  /\ args[1][1] = TIMESTAMP_KEY
  /\ args[2][1] = result[1].features[2]
  /\ args[3][1] = result[1].features[1]

(* C18: whenever the data set has a competency column, a run of the body of
   get_clustering_model hands the scaler one matrix, which has a row for
   every row of the data set and no missing value, each missing rating
   being replaced by the mean of its column *)
C18_ImputedMatrixComplete ==
  \A i \in 1..Len(result) :
     (result[i].fitted /\ CompetencyCols(df) # << >>) =>
        /\ Len(result[i].X_fit) = 1
        /\ Len(result[i].X_fit[1]) = Len(df.rows)
        /\ \A r \in 1..Len(df.rows) :
              \A j \in 1..Len(CompetencyCols(df)) :
                 /\ ~IsNaN(result[i].X_fit[1][r][j])
                 /\ Cell(df, r, CompetencyCols(df)[j]) # NAN
                       => RatEQ(result[i].X_fit[1][r][j],
                                Rat(Cell(df, r, CompetencyCols(df)[j]), 1))
                 /\ Cell(df, r, CompetencyCols(df)[j]) = NAN
                       => RatEQ(result[i].X_fit[1][r][j],
                                NpMean(Present(Column(df, CompetencyCols(df)[j]))))

(* C19: no call of predict_cluster, whatever its input, changes the scaler's
   statistics, the centroids or the feature list: the fitted objects a run
   finds in the cache are the same after it *)
C19_ArtifactsImmutable ==
  [][\A e \in model_cache :
        CacheHit(model_cache', e.key) => CacheValue(model_cache', e.key) = e.value]_vars

(* a second prediction made with the fitted objects an earlier prediction
   has used *)
C19_Witness ==
  /\ Len(result) = 2
  /\ result[1].status = "ok" /\ result[1].fitted
  /\ result[2].status = "ok" /\ ~result[2].fitted
  /\ CacheHit(model_cache, df)

(* C20: with the fitted objects of a successful get_clustering_model,
   predict_cluster returns one cluster id between 0 and NUM_CLUSTERS - 1 for
   every input mapping *)
C20_ClusterIdInRange ==
  \A i \in 1..Len(result) :
     result[i].status # "fit_error" =>
        /\ result[i].status = "ok"
        /\ Len(result[i].cluster) = 1
        /\ result[i].cluster[1] \in 0..(NUM_CLUSTERS - 1)

(* C11: with a data set that has no competency column get_clustering_model
   raises, returns no (model, scaler, features) and stores none, and no
   cluster id comes out of the run *)
C11_NoCompetencyColumnsRaises ==
  CompetencyCols(df) = << >> =>
    /\ model_cache = {}
    /\ \A i \in 1..Len(result) :
          /\ result[i].status = "fit_error"
          /\ result[i].features = << >>
          /\ result[i].cluster = << >>

(* two calls made with a spreadsheet whose only rating column is '14.a' *)
C11_Witness ==
  /\ df = NoCompetencyFrame
  /\ Len(result) = 2
  /\ result[2].status = "fit_error"

----------------------------------------------------------------------------
(* Claims about the caches                                                 *)

(* C7 as stated: the calls made with one data set, however many and from
   however many sessions, run the fit exactly once, and each of them returns
   the artifacts of that fit *)
C7_ExactlyOneFit ==
  \A s \in Sessions :
     Finished(s) =>
        /\ CopiesIn(calls[s].df, fits) = 1
        /\ calls[s].pc = "returned" =>
              calls[s].value = <<CacheValue(model_cache, calls[s].df)>>

(* C7, for the data sets the fit accepts: the calls made with one data set
   run the fit exactly once and each returns the artifacts of that fit; a
   fit that raises stores nothing and is run again by the next call *)
C7_OneFitPerFittableDataset ==
  /\ \A d \in BagToSet(fits) : ~FitRaises(d) => CopiesIn(d, fits) = 1
  /\ \A s \in Sessions :
        Finished(s) =>
           IF FitRaises(calls[s].df) THEN calls[s].pc = "raised"
           ELSE /\ calls[s].pc = "returned"
                /\ CopiesIn(calls[s].df, fits) = 1
                /\ CacheHit(model_cache, calls[s].df)
                /\ calls[s].value = <<CacheValue(model_cache, calls[s].df)>>

(* a session has fitted and returned while another session, which missed
   the cache before the fit was stored, waits in the call for the same data
   set *)
C7_Witness ==
  \E s, t \in Sessions :
     /\ calls[s].pc = "wait"
     /\ calls[t].pc = "returned"
     /\ calls[t].df = calls[s].df
     /\ CopiesIn(calls[s].df, fits) = 1

(* C8: a call returns the artifacts of a fit on the DataFrame it was given,
   and that DataFrame is what DATA_FILE held when the script run began: no
   artifacts of an earlier content of the file come back *)
C8_NeverStale ==
  \A s \in Sessions :
     calls[s].pc = "returned" =>
        /\ calls[s].value = <<Artifacts(calls[s].df, CLUSTER_RANDOM_STATE)>>
        /\ calls[s].df = calls[s].file

(* C12: a script run made while DATA_FILE has no 'Cluster' column gets no
   data set from load_data and halts before the routing, so that no page is
   rendered in it *)
C12_MissingLabelHalts ==
  \A s \in Sessions :
     (calls[s].pc # "idle" /\ MissingRequiredCols(calls[s].file)) =>
        /\ calls[s].df = NoFrame
        /\ Halted(s)

----------------------------------------------------------------------------
(* Claims about signup and login                                           *)

(* the accounts USERS_FILE holds, as <<name, record>> items *)
StoredAccounts(file) == IF file.state = "json" THEN file.users ELSE << >>

(* the record of the account a login with this name looks at *)
AccountOf(file, name) == DictGet(file.users, MatchingUsername(file.users, name)[1])

(* C23: once the failed_attempts of an account have reached 5, every later
   login for that account fails, with the right password too: no login step
   on an account that holds 5 or more failed attempts returns success. *)
C23_LockedAccountStaysLocked ==
  [][\A i \in 1..Len(StoredAccounts(users_file)) :
       (/\ users_file.users[i][2].failed_attempts >= LOCK_THRESHOLD
        /\ result'[1].op = "login"
        /\ result'[1].account = <<users_file.users[i][1]>>)
       => ~result'[1].ok]_vars

(* C24: every account other than the default administrator that load_users
   keeps in the store, that is every account signup created, has the role
   teacher and a name that is not reserved in any letter case; the default
   administrator keeps the role admin. *)
C24_SignupsAreTeachers ==
  \A i \in 1..Len(StoredAccounts(users_file)) :
    IF users_file.users[i][1] = DEFAULT_ADMIN_USERNAME
    THEN users_file.users[i][2].role = ROLE_ADMIN
    ELSE /\ users_file.users[i][2].role = ROLE_TEACHER
         /\ StrLower(users_file.users[i][1]) \notin RESERVED

(* a signup has just created an account, after a signup with a reserved name
   in capitals was possible *)
C24_Witness ==
  /\ result # << >>
  /\ result[1].op = "signup"
  /\ result[1].ok
  /\ Len(StoredAccounts(users_file)) = 2
  /\ users_file.users[2][1] = result[1].account[1]

(* the signup step that has just been taken was for a name some stored
   account has, up to letter case *)
SignupOfTakenName ==
  /\ result'[1].op = "signup"
  /\ users_file.state = "json"
  /\ \E i \in 1..Len(users_file.users) :
       StrLower(users_file.users[i][1]) = StrLower(result'[1].account[1])

(* no two stored names are equal up to letter case *)
NamesDistinctUpToCase(file) ==
  \A i, j \in 1..Len(StoredAccounts(file)) :
    StrLower(file.users[i][1]) = StrLower(file.users[j][1]) => i = j

(* C25 as stated: a signup with a name that an account has up to letter case
   fails with 'Username already exists' and leaves the store as it was. *)
C25_TakenNameAnsweredExists ==
  [][SignupOfTakenName =>
       /\ ~result'[1].ok
       /\ result'[1].message = "Username already exists"
       /\ users_file' = users_file]_vars

(* C25, amended: a signup with a name that an account has up to letter case
   fails and leaves the store as it was; the message is 'Username already
   exists' unless the name or the password fails validation, which is
   tested first; no two stored names differ only by letter case. *)
C25_UniqueUpToCase ==
  /\ []NamesDistinctUpToCase(users_file)
  /\ [][SignupOfTakenName =>
          /\ ~result'[1].ok
          /\ users_file' = users_file
          /\ \/ result'[1].message = "Username already exists"
             \/ result'[1].message = validate_username(result'[1].account[1])
             \/ /\ validate_username(result'[1].account[1]) = ""
                /\ result'[1].message \in {validate_password(p) : p \in TypedPasswords}
                /\ result'[1].message # ""]_vars

(* 'Bob' was refused because 'bob' is registered *)
C25_Witness ==
  /\ result # << >>
  /\ result[1].op = "signup"
  /\ result[1].message = "Username already exists"
  /\ result[1].account = <<NAME_BOB_CAPITAL>>
  /\ \E i \in 1..Len(StoredAccounts(users_file)) : users_file.users[i][1] = NAME_BOB

(* the calls are over and nothing is being written *)
AllReturned == \A s \in Sessions : calls[s].pc = "done"

(* C26: when the sessions have run signup for different names and all got
   success, every one of the names is in the user store; when they have run
   a login with a wrong password for the same account, failed_attempts has
   grown by the number of these logins. *)
C26_NoLostUpdate ==
  AllReturned =>
    /\ (/\ \A s \in Sessions : calls[s].op = "signup" /\ calls[s].ok
        /\ \A s, t \in Sessions : calls[s].username = calls[t].username => s = t)
       => \A s \in Sessions : DictHas(StoredAccounts(users_file), calls[s].username)
    /\ (\A s \in Sessions : calls[s].op = "login" /\ ~calls[s].ok
                            /\ calls[s].username = NAME_BOB /\ calls[s].users # << >>)
       => DictGet(users_file.users, NAME_BOB).failed_attempts
            = DictGet(StartingUsers, NAME_BOB).failed_attempts + Cardinality(Sessions)

(* C27: a signup that returned success, also one whose load_users could not
   read the file and went on with the default admin record, wrote a file
   that holds every account the file held just before it was written,
   unchanged, and one account more. *)
C27_SignupKeepsAccounts ==
  \A s \in Sessions :
    (/\ calls[s].pc = "done" /\ calls[s].op = "signup" /\ calls[s].ok
     /\ calls[s].read_failed
     /\ calls[s].backup_data.state = "json")
    => /\ \A i \in 1..Len(calls[s].backup_data.users) :
            calls[s].backup_data.users[i] \in Range(calls[s].users)
       /\ Len(calls[s].users) = Len(calls[s].backup_data.users) + 1

----------------------------------------------------------------------------
(* Claims about main()                                                     *)

(* the session is logged in with this role *)
LoggedInAs(user_role) ==
  /\ HasKey(session_state, "logged_in")
  /\ session_state["logged_in"]
  /\ session_state["user_role"] = user_role

(* C21: a script run in a session whose role is teacher never renders the
   Training Recommendations page or the Admin Tools page, whatever logins,
   logouts and navigation came before in the session. *)
C21_TeacherNeverSeesAdminPages ==
  LoggedInAs(ROLE_TEACHER) => shown.page \notin {"Training Recommendations", "Admin Tools"}

(* a teacher is looking at the Dashboard after a run that found current_page
   on a page of the administrator *)
C21_Witness ==
  /\ LoggedInAs(ROLE_TEACHER)
  /\ shown.page = "Dashboard"
  /\ "Teacher user attempted to access restricted page" \in result
  /\ users_file.users[1][2].last_login = "now"

(* C28: main content is rendered only in a session with logged_in true and
   the role admin or teacher; a session that is not logged in, be it new,
   logged out or reset because of another role, has username None and
   user_role None and is shown the login page. *)
C28_ContentOnlyWhenAuthenticated ==
  /\ shown.page \notin {"none", "auth"} => LoggedInAs(ROLE_ADMIN) \/ LoggedInAs(ROLE_TEACHER)
  /\ (HasKey(session_state, "logged_in") /\ ~session_state["logged_in"])
       => /\ session_state["username"] = NoUsername
          /\ session_state["user_role"] = NoRole
          /\ shown.page = "auth"

(* 'eve', whose role is neither admin nor teacher, has logged in and the
   session was reset *)
C28_Witness ==
  /\ "Invalid user role detected" \in result
  /\ HasKey(session_state, "logged_in")
  /\ ~session_state["logged_in"]
  /\ shown.page = "auth"

(* C30: the cluster assignment and the recommendations a session shows were
   computed from ratings the user who is logged in submitted. *)
C30_ResultsOfOwnRatings ==
  (shown.page = "Self Assessment" /\ shown.status = "ok")
    => args = <<session_state["username"]>>

(* the three authentication keys of the session *)
AuthKeys(ss) == <<ss["logged_in"], ss["username"], ss["user_role"]>>

(* the run ended with the error message of the model fit (app.py line 425)
   or of the prediction (self_assessment.py line 192) *)
FitOrPredictFailed(view) == view.status \in {"page_error", "predict_error"}

(* C22: a run in which fitting the model or predicting the cluster fails
   shows the error and neither a cluster assignment nor a recommendation
   list; the session stays logged in, and a session that was logged in
   before the run has the same logged_in, username and user_role after it. *)
C22_FailedResultsKeepSession ==
  [][FitOrPredictFailed(shown')
       => /\ shown'.page = "Self Assessment"
          /\ shown'.cluster = << >>
          /\ shown'.recs = << >>
          /\ session_state'["logged_in"]
          /\ (HasKey(session_state, "logged_in") /\ session_state["logged_in"])
               => AuthKeys(session_state') = AuthKeys(session_state)]_vars

(* ratings that lead to recommendations were submitted on a data set too
   small for the model, and the error is on screen *)
C22_Witness ==
  /\ FitOrPredictFailed(shown)
  /\ session_state["assessment_submitted"]
  /\ SelfRecommendationsSorted(AssessmentPage(df), session_state["assessment_data"]) # << >>
  /\ LoggedInAs(ROLE_TEACHER)

(* data holds a rating MIN_RATING..MAX_RATING for every competency column *)
RatesEveryColumn(data) ==
  \A col \in Range(CompetencyCols(df)) :
    /\ DictHas(data, col)
    /\ DictGet(data, col).t = "int"
    /\ DictGet(data, col).v \in MIN_RATING..MAX_RATING

(* the session holds a submitted assessment *)
Submitted(ss) ==
  /\ HasKey(ss, "assessment_submitted")
  /\ ss["assessment_submitted"]
  /\ RatesEveryColumn(ss["assessment_data"])

(* a result of the self-assessment is on screen *)
ResultRendered(view) ==
  view.page = "Self Assessment" /\ (view.cluster # << >> \/ view.recs # << >>)

(* C29: a result is rendered only while assessment_submitted is true and
   assessment_data rates every competency column; ratings are stored only
   together with assessment_submitted = true; assessment_submitted turns
   false only together with empty data and the form on screen, and turns
   true only together with complete ratings. *)
C29_AssessmentStateMachine ==
  /\ [](ResultRendered(shown) => Submitted(session_state))
  /\ [][/\ (/\ HasKey(session_state', "assessment_data")
            /\ session_state'["assessment_data"] # << >>)
             => Submitted(session_state')
        /\ (Submitted(session_state) /\ ~session_state'["assessment_submitted"])
             => /\ session_state'["assessment_data"] = << >>
                /\ shown'.status = "form"
                /\ ~ResultRendered(shown')]_vars

(* after a submitted assessment, "Start New Assessment" has put the empty
   form back on screen *)
C29_Witness ==
  /\ args # << >>
  /\ HasKey(session_state, "assessment_submitted")
  /\ ~session_state["assessment_submitted"]
  /\ session_state["assessment_data"] = << >>
  /\ shown.page = "Self Assessment"
  /\ shown.status = "form"

====
